---- MODULE Spec2Model ----
(***************************************************************************)
(* Model of the two daily-check agents of digoal/postgres_skill:           *)
(*   PostgresAgent      (postgres-daily-check/scripts/postgres_agent.py)   *)
(*   PolarDBCheckAgent  (polardb-daily-check/scripts/polardb_agent.py)     *)
(*                                                                         *)
(* A run picks one agent and a contiguous slice of that agent's checklist  *)
(* (the source's checklists have 45 and 23 entries; every entry is         *)
(* processed by the same loop body, so a slice exercises the same code).   *)
(* The external check process is the environment: its outcome is drawn     *)
(* from a small set for every check.                                       *)
(*                                                                         *)
(* Report lines are records [h, sev, txt, arg, row]: h is TRUE for a line  *)
(* that starts with "### ", sev is the severity word the line shows, txt   *)
(* names the template of the line, arg is the text interpolated into it    *)
(* and row is the index of the data row the line renders (0 for none).     *)
(***************************************************************************)
EXTENDS Integers, Sequences, FiniteSets, TLC

\* ------------------------------------------------------------------ bounds
MaxRows == 2
MaxChecks == 2

\* ------------------------------------------------------- program constants
MiB == 1048576
BloatPctThreshold == 20
BloatWastedMiB == 100
XidErrorAge == 1800000000
XidWarningAge == 1500000000
RollbackRateThreshold == 5
LagErrorMB == 1024
LagWarningMB == 100
LockWaitersThreshold == 5
ConnErrorPct == 95
ConnWarningPct == 80
CacheHitThreshold == 99
PolarLagErrorBytes == 1073741824
PolarLagWarningBytes == 104857600

\* ----------------------------------------------------------- severities
OK == "OK"
WARNING == "WARNING"
ERROR == "ERROR"
INFO == "INFO"
NONE == "NONE"
Severity == {OK, WARNING, ERROR}

Rank(s) == CASE s = ERROR -> 2 [] s = WARNING -> 1 [] OTHER -> 0

\* ------------------------------------------------------------ line shapes
Line(h, sev, txt, arg, row) ==
    [h |-> h, sev |-> sev, txt |-> txt, arg |-> arg, row |-> row]
Hdr(sev, txt) == Line(TRUE, sev, txt, "", 0)
HdrA(sev, txt, arg) == Line(TRUE, sev, txt, arg, 0)
Body(txt) == Line(FALSE, NONE, txt, "", 0)
BodyA(txt, arg) == Line(FALSE, NONE, txt, arg, 0)
Mark(sev, txt, i) == Line(FALSE, sev, txt, "", i)
RowLine(txt, i) == Line(FALSE, NONE, txt, "", i)
\* the "\n---\n" line run_checks appends after every check
Separator == Line(FALSE, NONE, "---", "", 0)

\* ------------------------------------------------------------ dict helpers
Has(row, f) == f \in DOMAIN row
Get(row, f, default) == IF f \in DOMAIN row THEN row[f] ELSE default

\* An insertion-ordered dict is a sequence of <<key, value>> pairs.
DictKeys(d) == [i \in 1..Len(d) |-> d[i][1]]
DictHas(d, k) == \E i \in 1..Len(d) : d[i][1] = k
DictGet(d, k) == d[CHOOSE i \in 1..Len(d) : d[i][1] = k][2]
DictSet(d, k, v) ==
    IF DictHas(d, k)
    THEN [i \in 1..Len(d) |-> IF d[i][1] = k THEN <<k, v>> ELSE d[i]]
    ELSE Append(d, <<k, v>>)

\* ----------------------------------------------- PostgresAgent._update_status
update_status_no_guard(report_status_, new_status) ==
    IF new_status = ERROR THEN ERROR
    ELSE IF new_status = WARNING THEN WARNING
    ELSE report_status_

update_status_first_wins(report_status_, new_status) ==
    IF report_status_ = OK /\ new_status \in {WARNING, ERROR} THEN new_status
    ELSE report_status_

update_status(report_status_, new_status) ==
    IF new_status = ERROR THEN ERROR
    ELSE IF new_status = WARNING /\ report_status_ # ERROR THEN WARNING
    ELSE report_status_

\* The status after the calls _update_status(calls[1]), ..., in this order.
FoldStatus(start, calls) ==
    LET f[i \in 0..Len(calls)] ==
            IF i = 0 THEN start ELSE update_status(f[i - 1], calls[i])
    IN f[Len(calls)]

\* ------------------------------------------------ the body of one rule
\* s = [report, calls, raised, flag, flag2]: the report list, the arguments
\* of the _update_status calls made so far, whether an exception has been
\* raised (nothing after it executes) and the rule's local booleans.
Emit(s, line) == IF s.raised THEN s ELSE [s EXCEPT !.report = Append(@, line)]
Upd(s, sev) == IF s.raised THEN s ELSE [s EXCEPT !.calls = Append(@, sev)]
SetFlag(s) == IF s.raised THEN s ELSE [s EXCEPT !.flag = TRUE]
SetFlag2(s) == IF s.raised THEN s ELSE [s EXCEPT !.flag2 = TRUE]
Raise(s) == [s EXCEPT !.raised = TRUE]
\* row[f] for every f in fields: KeyError when one is missing
Need(s, row, fields) == IF fields \subseteq DOMAIN row THEN s ELSE Raise(s)

\* self.report[i] = line, i a Python index (0-based, negative from the end)
SetItem(s, i, line) ==
    LET n == Len(s.report)
        j == IF i < 0 THEN i + n ELSE i
    IN IF s.raised THEN s
       ELSE IF j < 0 \/ j >= n THEN Raise(s)
       ELSE [s EXCEPT !.report[j + 1] = line]

\* for item in data: s = Step(s, item, index)
ForEach(Step(_, _, _), s, data) ==
    LET f[i \in 0..Len(data)] ==
            IF i = 0 THEN s ELSE Step(f[i - 1], data[i], i)
    IN f[Len(data)]


S0(report_) ==
    [report |-> report_, calls |-> <<>>, raised |-> FALSE,
     flag |-> FALSE, flag2 |-> FALSE]

EmitRows(s, data, txt) ==
    ForEach(LAMBDA a, item, i : Emit(a, RowLine(txt, i)), s, data)

\* "does not exist" in notes
ContainsDoesNotExist(notes) ==
    notes \in {"view or table does not exist",
               "view or table does not exist: relation does not exist"}

\* status.endswith("_OVERDUE")
EndsWithOverdue(status) == status \in {"XID_OVERDUE", "MXID_OVERDUE"}

\* ------------------------------------ the rules of _analyze_and_report
\* the rule without its "if data:" test
rule_get_blocking_locks_untested(s, data, notes) ==
    Upd(Emit(Emit(s, Hdr(ERROR, "Blocking Locks Detected")),
             Body("Found n blocking lock situations")), ERROR)

rule_get_blocking_locks(s, data, notes) ==
    IF data # <<>>
    THEN LET a == Emit(Emit(s, Hdr(ERROR, "Blocking Locks Detected")),
                       Body("Found n blocking lock situations"))
             b == ForEach(LAMBDA x, lock, i :
                            Emit(Need(x, lock, {"waiting_pid", "blocking_pid"}),
                                 RowLine("Waiting PID is blocked by", i)),
                          a, data)
         IN Upd(b, ERROR)
    ELSE Emit(s, Hdr(OK, "No Blocking Locks"))

rule_get_wal_archiver_status(s, data, notes) ==
    LET a == Emit(s, Hdr(INFO, "WAL & Archiver Status"))
    IN IF data # <<>>
       THEN LET st == data[1]
                b == Need(a, st, {"failed_count"})
                c == IF Get(st, "failed_count", 0) > 0
                     THEN Upd(Emit(Need(Emit(Emit(b,
                              Hdr(ERROR, "Archiver has Failed")),
                              Body("Failed Count")),
                              st, {"last_failed_wal", "last_failed_time"}),
                              Body("Last Failed WAL")), ERROR)
                     ELSE Emit(b, Hdr(OK, "Archiver Status"))
                d == Emit(Need(c, st, {"wal_directory_size"}),
                          Body("WAL Directory Size"))
            IN Emit(Need(d, st, {"last_archived_wal", "last_archived_time"}),
                    Body("Last Archived WAL"))
       ELSE IF ContainsDoesNotExist(notes)
       THEN Emit(a, Body("Archiving may be disabled"))
       ELSE Emit(a, Body("Could not retrieve archiver status."))

\* an index two lines further from the end
table_header_index_past_block(report_, data) == Len(report_) - Len(data) - 4

\* the index of the header rewrite of the bloat, freeze and settings rules
table_header_index(report_, data) == Len(report_) - Len(data) - 2

\* the test with "or" in place of "and"
bloat_exceeds_either(bloat_pct, wasted_bytes) ==
    bloat_pct > BloatPctThreshold \/ wasted_bytes > BloatWastedMiB * MiB

\* bloat_pct > 20 and wasted_bytes > 100 * (1024**2)
bloat_exceeds(bloat_pct, wasted_bytes) ==
    bloat_pct > BloatPctThreshold /\ wasted_bytes > BloatWastedMiB * MiB

rule_get_bloat(s, data, notes, obj_type) ==
    LET a == Emit(s, HdrA(INFO, "Top 10 Bloated", obj_type))
    IN IF data # <<>>
       THEN LET b == Emit(Emit(a, Body("| Schema | Name | Total Size | Bloat % | Wasted Space |")),
                          Body("|---|---|---|---|---|"))
                c == ForEach(LAMBDA x, item, i :
                        LET bloat_pct == Get(item, "bloat_percentage", 0)
                            wasted_bytes == Get(item, "wasted_bytes", 0)
                            y == IF bloat_exceeds(bloat_pct, wasted_bytes)
                                 THEN SetFlag(x) ELSE x
                        IN Emit(y, RowLine("bloat row", i)),
                        b, data)
            IN IF c.flag
               THEN Upd(SetItem(c, table_header_index(c.report, data),
                                HdrA(WARNING, "Significant Bloat Detected", obj_type)),
                        WARNING)
               ELSE c
       ELSE Emit(a, Body("No significant bloat detected"))

rule_get_connection_usage(s, data, notes) ==
    IF data # <<>>
    THEN LET a == Need(s, data[1], {"used_connections", "max_connections"})
             used == Get(data[1], "used_connections", 0)
             max_conn == Get(data[1], "max_connections", 1)
             \* usage_percent = (used / max_conn) * 100: ZeroDivisionError
             b == IF max_conn = 0 THEN Raise(a) ELSE a
             c == IF used * 100 > ConnErrorPct * max_conn
                  THEN Upd(Emit(b, Hdr(ERROR, "High Connection Usage")), ERROR)
                  ELSE IF used * 100 > ConnWarningPct * max_conn
                  THEN Upd(Emit(b, Hdr(WARNING, "High Connection Usage")), WARNING)
                  ELSE Emit(b, Hdr(OK, "Connection Usage"))
         IN Emit(c, Body("Current active connections"))
    ELSE Emit(s, Hdr(INFO, "Connection Usage"))

rule_get_cache_hit_rate(s, data, notes) ==
    IF data # <<>>
    THEN IF Get(data[1], "hit_rate_percentage", 0) < CacheHitThreshold
         THEN Upd(Emit(s, Hdr(WARNING, "Low Cache Hit Rate")), WARNING)
         ELSE Emit(s, Hdr(OK, "Cache Hit Rate"))
    ELSE Emit(s, Hdr(INFO, "Cache Hit Rate"))

rule_get_xid_wraparound_risk(s, data, notes) ==
    LET a == Emit(s, Hdr(INFO, "Transaction ID Wraparound Risk"))
        b == ForEach(LAMBDA x, db, i :
                LET age == Get(db, "xid_age", 0)
                IN IF age > XidErrorAge
                   THEN Upd(SetFlag(Emit(Need(x, db, {"datname"}),
                                         Mark(ERROR, "CRITICAL - % used", i))), ERROR)
                   ELSE IF age > XidWarningAge
                   THEN Upd(SetFlag(Emit(Need(x, db, {"datname"}),
                                         Mark(WARNING, "WARNING - % used", i))), WARNING)
                   ELSE x,
                a, data)
    IN IF ~b.flag
       THEN Emit(b, Body("All databases are well below the wraparound threshold."))
       ELSE b

rule_get_rollback_rate(s, data, notes) ==
    LET a == Emit(s, Hdr(INFO, "Transaction Rollback Rate"))
        b == ForEach(LAMBDA x, db, i :
                IF Get(db, "rollback_percentage", 0) > RollbackRateThreshold
                THEN Upd(SetFlag(Emit(Need(x, db, {"datname"}),
                                      Mark(WARNING, "Rollback rate is high", i))), WARNING)
                ELSE x,
                a, data)
    IN IF ~b.flag
       THEN Emit(b, Body("Transaction rollback rates are within normal limits."))
       ELSE b

rule_get_replication_slots(s, data, notes) ==
    LET a == Emit(s, Hdr(INFO, "Replication Slots Status"))
    IN IF data = <<>> /\ notes # "view or table does not exist"
       THEN Emit(a, Body("No replication slots found."))
       ELSE IF data # <<>>
       THEN LET b == ForEach(LAMBDA x, slot, i :
                        LET y == Need(x, slot, {"active"})
                        IN IF ~Get(slot, "active", TRUE)
                           THEN Upd(SetFlag(Emit(
                                    Need(y, slot, {"restart_lsn_lag_bytes", "slot_name"}),
                                    Mark(ERROR, "Slot is INACTIVE", i))), ERROR)
                           ELSE y,
                        a, data)
            IN IF ~b.flag
               THEN Emit(b, Body("All replication slots are active."))
               ELSE b
       ELSE IF ContainsDoesNotExist(notes)
       THEN Emit(a, Body("Replication slots are not applicable or view does not exist."))
       ELSE a

replication_header_index_early(data) == 0 - Len(data) - 3

replication_header_index(data) == 0 - Len(data) - 1

\* the rule with the floor division lag_bytes // 1024**2
pg_lag_severity_floored(lag_bytes) ==
    IF lag_bytes \div MiB > LagErrorMB THEN ERROR
    ELSE IF lag_bytes \div MiB > LagWarningMB THEN WARNING
    ELSE OK

\* lag_mb = replay_lag_bytes / (1024**2); lag_mb > 1024, lag_mb > 100.  The
\* division by a power of two is exact in binary floating point: lag_mb is
\* the quotient whole plus the remainder rest over 1024**2.
pg_lag_severity(lag_bytes) ==
    LET whole == lag_bytes \div MiB
        rest == lag_bytes % MiB
    IN IF whole > LagErrorMB \/ (whole = LagErrorMB /\ rest > 0) THEN ERROR
       ELSE IF whole > LagWarningMB \/ (whole = LagWarningMB /\ rest > 0) THEN WARNING
       ELSE OK

rule_get_replication_status(s, data, notes) ==
    LET a == Emit(s, Hdr(INFO, "Replication Status"))
    IN IF data = <<>>
       THEN Emit(a, Body("No active replicas found (normal for a standalone instance)."))
       ELSE LET b == ForEach(LAMBDA x, replica, i :
                        LET lag_bytes == Get(replica, "replay_lag_bytes", 0)
                            y == Emit(x, RowLine("Replica, State, Replay Lag", i))
                        IN IF pg_lag_severity(lag_bytes) = OK THEN y
                           ELSE Upd(SetFlag(y), pg_lag_severity(lag_bytes)),
                        a, data)
            IN IF b.flag
               THEN SetItem(b, replication_header_index(data),
                            Hdr(WARNING, "Replication Lag Detected"))
               ELSE b

rule_get_freeze_prediction(s, data, notes) ==
    LET a == Emit(s, Hdr(INFO, "Freeze Storm Prediction (XID/MXID Wraparound)"))
    IN IF data # <<>>
       THEN LET b == Emit(Emit(a, Body("| Schema | Table Name | Total Size | XID Remain | MXID Remain | Status |")),
                          Body("|---|---|---|---|---|---|"))
                c == ForEach(LAMBDA x, item, i :
                        LET y == Need(x, item, {"freeze_status"})
                            status == Get(item, "freeze_status", "OK")
                            z == IF status = "CRITICAL" \/ EndsWithOverdue(status)
                                 THEN SetFlag(y)
                                 ELSE IF status = "WARNING" THEN SetFlag2(y) ELSE y
                        IN Emit(Need(z, item, {"schemaname", "table_name",
                                               "total_size", "xid_remain_ages"}),
                                RowLine("freeze row", i)),
                        b, data)
            IN IF c.flag
               THEN Upd(SetItem(c, table_header_index(c.report, data),
                                Hdr(ERROR, "Critical Freeze Storm Risk Detected!")), ERROR)
               ELSE IF c.flag2
               THEN Upd(SetItem(c, table_header_index(c.report, data),
                                Hdr(WARNING, "Freeze Storm Risk Detected")), WARNING)
               ELSE c
       ELSE Emit(a, Body("No tables are currently approaching XID/MXID freeze limits."))

\* the rule that accepts "on" alone for synchronous_commit
setting_severity_on_only(setting_name, setting_value) ==
    IF setting_name = "fsync" /\ setting_value # "on" THEN ERROR
    ELSE IF setting_name = "synchronous_commit" /\ setting_value # "on" THEN WARNING
    ELSE OK

\* if setting_name == "fsync" and setting_value != "on": ...
\* elif setting_name == "synchronous_commit" and setting_value not in ("on", "local"): ...
setting_severity(setting_name, setting_value) ==
    IF setting_name = "fsync" /\ setting_value # "on" THEN ERROR
    ELSE IF setting_name = "synchronous_commit" /\ setting_value \notin {"on", "local"}
    THEN WARNING
    ELSE OK

rule_get_critical_settings(s, data, notes) ==
    LET a == Emit(s, Hdr(INFO, "Critical Settings Review"))
    IN IF data # <<>>
       THEN LET b == Emit(Emit(a, Body("| Setting | Value | Recommendation |")),
                          Body("|---|---|---|"))
                c == ForEach(LAMBDA x, item, i :
                        LET y == Need(x, item, {"name", "setting"})
                            setting_name == Get(item, "name", "")
                            setting_value == Get(item, "setting", "")
                        IN IF setting_severity(setting_name, setting_value) = ERROR
                           THEN Emit(Upd(SetFlag(y), ERROR),
                                     Mark(ERROR, "setting row", i))
                           ELSE IF setting_severity(setting_name, setting_value) = WARNING
                           THEN Emit(Upd(y, WARNING), Mark(WARNING, "setting row", i))
                           ELSE Emit(y, Mark(OK, "setting row", i)),
                        b, data)
            IN IF c.flag
               THEN SetItem(c, table_header_index(c.report, data),
                            Hdr(ERROR, "Critical Settings Misconfiguration"))
               ELSE c
       ELSE Emit(a, Body("Could not retrieve critical settings information."))

rule_get_sequence_exhaustion(s, data, notes) ==
    LET a == Emit(s, Hdr(INFO, "Sequence Exhaustion Risk"))
    IN IF data # <<>>
       THEN LET b == Emit(Emit(Emit(Emit(a,
                        Hdr(WARNING, "Sequences Approaching Max Value")),
                        Body("The following sequences are over 80% used.")),
                        Body("| Schema | Sequence Name | Percentage Used |")),
                        Body("|---|---|---|"))
                c == ForEach(LAMBDA x, item, i :
                        Emit(Need(x, item, {"schemaname", "sequence_name", "percentage_used"}),
                             RowLine("sequence row", i)),
                        b, data)
            IN Upd(c, WARNING)
       ELSE Emit(a, Body("No sequences are nearing their exhaustion threshold."))

rule_get_stale_statistics(s, data, notes) ==
    LET a == Emit(s, Hdr(INFO, "Stale Table Statistics"))
    IN IF data # <<>>
       THEN LET b == Emit(Emit(Emit(Emit(a,
                        Hdr(WARNING, "Tables with Stale Statistics Found")),
                        Body("The following tables have had >10% of their rows modified")),
                        Body("| Schema | Table Name | Live Tuples | Modified % | Last Auto-Analyze |")),
                        Body("|---|---|---|---|---|"))
                c == ForEach(LAMBDA x, item, i :
                        Emit(Need(x, item, {"schemaname", "relname", "n_live_tup",
                                            "modified_percent", "last_autoanalyze"}),
                             RowLine("stale row", i)),
                        b, data)
            IN Upd(c, WARNING)
       ELSE Emit(a, Body("Table statistics appear to be up-to-date."))

rule_get_bgwriter_stats(s, data, notes) ==
    LET a == Emit(s, Hdr(INFO, "Background Writer Statistics"))
    IN IF data # <<>>
       THEN LET maxwritten == Get(data[1], "maxwritten_clean", 0)
                b == IF maxwritten > 0
                     THEN Upd(Emit(Emit(a, Hdr(WARNING, "Background Writer Maxwritten")),
                                   Body("Background writer reached max pages limit")), WARNING)
                     ELSE Emit(a, Hdr(OK, "Background Writer Normal"))
            IN Emit(Emit(Emit(b, Body("Buffers Clean")), Body("Buffers Allocated")),
                    Body("Maxwritten Clean"))
       ELSE a

rule_get_checkpointer_stats(s, data, notes) ==
    LET a == Emit(s, Hdr(INFO, "Checkpointer Statistics"))
    IN IF data # <<>>
       THEN LET cp == data[1]
                timed == Get(cp, "checkpoints_timed", 0)
                requested == Get(cp, "checkpoints_req", 0)
                write_time == Get(cp, "checkpoint_write_time", 0)
                sync_time == Get(cp, "checkpoint_sync_time", 0)
                b == Emit(Emit(Emit(Emit(Emit(a, Body("Timed Checkpoints")),
                        Body("Requested Checkpoints")), Body("Buffers Written")),
                        Body("Write Time")), Body("Sync Time"))
                c == IF requested > timed * 2
                     THEN Upd(Emit(Emit(b, Hdr(WARNING, "High ratio of requested checkpoints")),
                                   Body("Consider tuning max_wal_size or checkpoint_timeout.")),
                              WARNING)
                     ELSE b
            IN IF write_time > 10000 \/ sync_time > 10000
               THEN Upd(Emit(Emit(c, Hdr(WARNING, "High checkpoint I/O time")),
                             Body("Consider faster storage or tuning checkpoint segments.")),
                        WARNING)
               ELSE c
       ELSE Emit(a, Body("Unable to retrieve checkpointer statistics."))

rule_get_checkpointer_write_sync_time(s, data, notes) ==
    LET a == Emit(s, Hdr(INFO, "Checkpointer Write/Sync Time Analysis"))
    IN IF data # <<>>
       THEN LET cp == data[1]
                avg_write == Get(cp, "avg_write_time_per_checkpoint_ms", 0)
                avg_sync == Get(cp, "avg_sync_time_per_checkpoint_ms", 0)
                num_timed == Get(cp, "num_timed", 0)
                num_requested == Get(cp, "num_requested", 0)
                status == Get(cp, "checkpointer_status", "OK")
                b == Emit(Emit(Emit(Emit(Emit(Emit(a, Body("Total Write Time")),
                        Body("Total Sync Time")), Body("Avg Write per Checkpoint")),
                        Body("Avg Sync per Checkpoint")), Body("Timed Checkpoints")),
                        Body("Requested Checkpoints"))
                c == IF status = "WARNING" /\ num_requested > num_timed * 2
                     THEN Upd(Emit(Emit(b, Hdr(WARNING, "High Requested Checkpoint Ratio")),
                                   Body("Too many requested checkpoints vs timed checkpoints.")),
                              WARNING)
                     ELSE b
            IN IF status = "WARNING" /\ (avg_write > 5000 \/ avg_sync > 5000)
               THEN Upd(Emit(Emit(c, Hdr(WARNING, "High Checkpoint I/O Time")),
                             Body("Average checkpoint write/sync time is high.")),
                        WARNING)
               ELSE c
       ELSE Emit(a, Body("Unable to retrieve checkpointer statistics."))

rule_get_lock_waiters(s, data, notes) ==
    LET a == Emit(s, Hdr(INFO, "Lock Waiters (Potential Deadlock Risk)"))
    IN IF data # <<>>
       THEN LET b == IF Len(data) > LockWaitersThreshold
                     THEN Upd(Emit(Emit(a, Hdr(WARNING, "Multiple Lock Waiters Detected")),
                                   Body("Found n sessions waiting for locks.")), WARNING)
                     ELSE Emit(a, Hdr(OK, "Few Lock Waiters"))
                c == Emit(Emit(b, Body("| Blocked PID | Blocked User | Blocked Query | Blocking PID | Blocking User | Blocked Mode | Relation |")),
                          Body("|---|---|---|---|---|---|---|"))
            IN EmitRows(c, data, "lock waiter row")
       ELSE Emit(a, Hdr(OK, "No Lock Waiters Detected"))

rule_get_database_sizes(s, data, notes) ==
    LET a == Emit(s, Hdr(INFO, "Top 10 Database Sizes"))
    IN IF data # <<>>
       THEN LET b == Emit(Emit(a, Body("| Database Name | Size |")), Body("|---|---|"))
            IN ForEach(LAMBDA x, db, i :
                         Emit(Need(x, db, {"datname", "size"}), RowLine("size row", i)),
                       b, data)
       ELSE Emit(a, Body("Could not retrieve database sizes."))

\* ------------------------------------------------- check results
\* A PostgresAgent result: the dict _run_skill returns.  data is the row
\* list of a success result; a failure result carries its error text in the
\* source's data key, which the model keeps apart as err.
PgResult(skill, status, data, notes, err) ==
    [skill |-> skill, status |-> status, data |-> data, notes |-> notes, err |-> err]

RecognizedSkills ==
    {"get_blocking_locks", "get_wal_archiver_status", "get_table_bloat",
     "get_index_bloat", "get_connection_usage", "get_cache_hit_rate",
     "get_xid_wraparound_risk", "get_rollback_rate", "get_replication_slots",
     "get_replication_status", "get_freeze_prediction", "get_critical_settings",
     "get_sequence_exhaustion", "get_stale_statistics", "get_bgwriter_stats",
     "get_checkpointer_stats", "get_checkpointer_write_sync_time",
     "get_lock_waiters", "get_database_sizes"}

\* the if/elif chain of _analyze_and_report, after the status test
apply_rule(s, skill, data, notes) ==
    CASE skill = "get_blocking_locks" -> rule_get_blocking_locks(s, data, notes)
      [] skill = "get_wal_archiver_status" -> rule_get_wal_archiver_status(s, data, notes)
      [] skill = "get_table_bloat" -> rule_get_bloat(s, data, notes, "Table")
      [] skill = "get_index_bloat" -> rule_get_bloat(s, data, notes, "Index")
      [] skill = "get_connection_usage" -> rule_get_connection_usage(s, data, notes)
      [] skill = "get_cache_hit_rate" -> rule_get_cache_hit_rate(s, data, notes)
      [] skill = "get_xid_wraparound_risk" -> rule_get_xid_wraparound_risk(s, data, notes)
      [] skill = "get_rollback_rate" -> rule_get_rollback_rate(s, data, notes)
      [] skill = "get_replication_slots" -> rule_get_replication_slots(s, data, notes)
      [] skill = "get_replication_status" -> rule_get_replication_status(s, data, notes)
      [] skill = "get_freeze_prediction" -> rule_get_freeze_prediction(s, data, notes)
      [] skill = "get_critical_settings" -> rule_get_critical_settings(s, data, notes)
      [] skill = "get_sequence_exhaustion" -> rule_get_sequence_exhaustion(s, data, notes)
      [] skill = "get_stale_statistics" -> rule_get_stale_statistics(s, data, notes)
      [] skill = "get_bgwriter_stats" -> rule_get_bgwriter_stats(s, data, notes)
      [] skill = "get_checkpointer_stats" -> rule_get_checkpointer_stats(s, data, notes)
      [] skill = "get_checkpointer_write_sync_time" ->
             rule_get_checkpointer_write_sync_time(s, data, notes)
      [] skill = "get_lock_waiters" -> rule_get_lock_waiters(s, data, notes)
      [] skill = "get_database_sizes" -> rule_get_database_sizes(s, data, notes)
      [] OTHER -> s

\* PostgresAgent._analyze_and_report: the rule state after the call
analyze_and_report(report_, result) ==
    IF result.status # "success"
    THEN Upd(Emit(Emit(S0(report_), HdrA(ERROR, "Skill Failed", result.skill)),
                  BodyA("Error details", result.err)), ERROR)
    ELSE apply_rule(S0(report_), result.skill, result.data, result.notes)

\* ------------------------------------------- PostgresAgent._run_skill
ErrTimeout == "An unexpected error occurred: Command timed out after 900 seconds"
ErrOS == "An unexpected error occurred: [Errno 8] Exec format error"
ErrExit == "Script execution failed with code 1"
ErrJson == "Failed to parse JSON output"
StderrDoesNotExist == "relation does not exist"

\* the runner without the "does not exist" exception: every non-zero exit fails
run_skill_nonzero_always_fails(skill_name, proc) ==
    IF proc.exc = "timeout" THEN PgResult(skill_name, "fail", <<>>, "", ErrTimeout)
    ELSE IF proc.exc # "none" THEN PgResult(skill_name, "fail", <<>>, "", ErrOS)
    ELSE IF proc.returncode # 0 THEN PgResult(skill_name, "fail", <<>>, "", ErrExit)
    ELSE IF proc.stdout = "" THEN PgResult(skill_name, "success", <<>>, "", "")
    ELSE IF proc.stdout = "garbage" THEN PgResult(skill_name, "fail", <<>>, "", ErrJson)
    ELSE proc.json

\* proc is what subprocess.run did: exc is the exception it raised ("none",
\* "timeout" for TimeoutExpired, "oserror"), else returncode, stderr and
\* stdout; stdout is "" (blank), "garbage" (not JSON) or "json", and json is
\* then the object it parses to.
run_skill(skill_name, proc) ==
    IF proc.exc = "timeout" THEN PgResult(skill_name, "fail", <<>>, "", ErrTimeout)
    ELSE IF proc.exc # "none" THEN PgResult(skill_name, "fail", <<>>, "", ErrOS)
    ELSE IF proc.returncode # 0
    THEN IF proc.stderr = StderrDoesNotExist
         THEN PgResult(skill_name, "success", <<>>,
                       "view or table does not exist: relation does not exist", "")
         ELSE PgResult(skill_name, "fail", <<>>, "", ErrExit)
    ELSE IF proc.stdout = "" THEN PgResult(skill_name, "success", <<>>, "", "")
    ELSE IF proc.stdout = "garbage" THEN PgResult(skill_name, "fail", <<>>, "", ErrJson)
    ELSE proc.json

\* ------------------------------------------------ the environment
SeqsUpTo(S, n) == UNION {[1..k -> S] : k \in 0..n}

PgRows(skill) ==
    CASE skill = "get_blocking_locks" ->
           {[waiting_pid |-> 11, blocking_pid |-> 12], [blocking_pid |-> 12]}
      [] skill = "get_wal_archiver_status" ->
           {[failed_count |-> c, last_failed_wal |-> "w", last_failed_time |-> "t",
             wal_directory_size |-> "1 GB", last_archived_wal |-> "w",
             last_archived_time |-> "t"] : c \in {0, 3}}
      [] skill \in {"get_table_bloat", "get_index_bloat"} ->
           {[schemaname |-> "public", bloat_percentage |-> b[1], wasted_bytes |-> b[2]] :
              b \in {<<25, 150 * MiB>>, <<25, 100 * MiB>>, <<20, 150 * MiB>>}}
      [] skill = "get_connection_usage" ->
           {[used_connections |-> u, max_connections |-> 100] : u \in {80, 81, 95, 96}}
             \cup {[used_connections |-> 5, max_connections |-> 0],
                   [current_connections |-> 96, max_connections |-> 100]}
      [] skill = "get_cache_hit_rate" ->
           {[datname |-> "db", hit_rate_percentage |-> r] : r \in {98, 100}}
      [] skill = "get_xid_wraparound_risk" ->
           {[datname |-> "db", xid_age |-> a, percentage_used |-> 0] :
              a \in {1000, XidWarningAge + 1, XidErrorAge + 1}}
      [] skill = "get_rollback_rate" ->
           {[datname |-> "db", rollback_percentage |-> r] : r \in {1, 10}}
      [] skill = "get_replication_slots" ->
           {[slot_name |-> "s", active |-> a, restart_lsn_lag_bytes |-> 0] :
              a \in BOOLEAN}
      [] skill = "get_replication_status" ->
           {[client_addr |-> "10.0.0.2", state |-> "streaming", replay_lag_bytes |-> l] :
              l \in {LagWarningMB * MiB, LagWarningMB * MiB + 1,
                     LagErrorMB * MiB, LagErrorMB * MiB + 1}}
      [] skill = "get_freeze_prediction" ->
           {[schemaname |-> "public", table_name |-> "t", total_size |-> "1 GB",
             xid_remain_ages |-> 1000, freeze_status |-> f] :
              f \in {"OK", "WARNING", "CRITICAL"}}
      [] skill = "get_critical_settings" ->
           {[name |-> x[1], setting |-> x[2]] :
              x \in {<<"fsync", "on">>, <<"fsync", "off">>,
                     <<"synchronous_commit", "off">>,
                     <<"synchronous_commit", "local">>,
                     <<"full_page_writes", "off">>}}
      [] skill = "get_sequence_exhaustion" ->
           {[schemaname |-> "public", sequence_name |-> "s", percentage_used |-> 90]}
      [] skill = "get_stale_statistics" ->
           {[schemaname |-> "public", relname |-> "t", n_live_tup |-> 1000,
             modified_percent |-> 20, last_autoanalyze |-> "t"]}
      [] skill = "get_bgwriter_stats" ->
           {[maxwritten_clean |-> m] : m \in {0, 4}}
      [] skill = "get_checkpointer_stats" ->
           {[checkpoints_timed |-> 10, checkpoints_req |-> x[1],
             checkpoint_write_time |-> x[2], checkpoint_sync_time |-> 0] :
              x \in {<<5, 0>>, <<21, 0>>, <<5, 20000>>}}
      [] skill = "get_checkpointer_write_sync_time" ->
           {[num_timed |-> 10, num_requested |-> x[1], checkpointer_status |-> x[2]] :
              x \in {<<21, "WARNING">>, <<21, "OK">>, <<5, "WARNING">>}}
      [] skill = "get_lock_waiters" -> {[blocked_pid |-> 11, blocking_pid |-> 12]}
      [] skill = "get_database_sizes" -> {[datname |-> "db", size |-> "1 GB"]}
      [] OTHER -> {[value |-> 1]}

\* the skills whose rule reads data[0] alone: their queries give one row
FirstRowSkills ==
    {"get_wal_archiver_status", "get_connection_usage", "get_cache_hit_rate",
     "get_bgwriter_stats", "get_checkpointer_stats", "get_checkpointer_write_sync_time"}

\* pg_settings has one row per setting name
DistinctNames(d) == \A i, j \in 1..Len(d) : d[i].name = d[j].name => i = j

\* the row lists a check can return: up to MaxRows rows (one row at most for
\* the skills of which the first row alone is read, one row per name for the
\* settings), and for the lock waiters (whose rule counts the rows) also one
\* list above its threshold
PgData(skill) ==
    {d \in SeqsUpTo(PgRows(skill), IF skill \in FirstRowSkills THEN 1 ELSE MaxRows) :
       skill = "get_critical_settings" => DistinctNames(d)}
      \cup (IF skill = "get_lock_waiters"
            THEN {[i \in 1..(LockWaitersThreshold + 1) |->
                     [blocked_pid |-> 11, blocking_pid |-> 12]]}
            ELSE {})

\* what the check script can print as JSON for a skill: a success result with
\* rows, a result of another status with its error text, or a result that
\* names a skill the agent has no rule for
PgScriptJson(skill) ==
    {PgResult(skill, "success", d, "", "") : d \in PgData(skill)}
      \cup {PgResult(skill, "success", <<>>, "view or table does not exist", "")}
      \cup {PgResult(skill, "fail", <<>>, "", "connection refused"),
            PgResult(skill, "timeout", <<>>, "", "query timed out"),
            PgResult(skill, "unknown", <<>>, "", "unknown"),
            PgResult("get_custom_metric", "success", <<[value |-> 1]>>, "", ""),
            PgResult("get_custom_metric", "fail", <<>>, "", "connection refused")}

Proc(exc, returncode, stderr, stdout, json) ==
    [exc |-> exc, returncode |-> returncode, stderr |-> stderr,
     stdout |-> stdout, json |-> json]

PgProcs(skill) ==
    LET none == PgResult(skill, "success", <<>>, "", "")
    IN {Proc("timeout", 0, "", "", none), Proc("oserror", 0, "", "", none),
        Proc("none", 1, StderrDoesNotExist, "", none),
        Proc("none", 1, "connection refused", "", none),
        Proc("none", 0, "", "", none), Proc("none", 0, "", "garbage", none)}
         \cup {Proc("none", 0, "", "json", j) : j \in PgScriptJson(skill)}

\* the modelled entries of run_checks' checklist, in the source's order
PgChecklist ==
    <<"get_xid_wraparound_risk", "get_freeze_prediction", "get_blocking_locks",
      "get_critical_settings", "get_sequence_exhaustion", "get_replication_slots",
      "get_wal_archiver_status", "get_replication_status", "get_connection_usage",
      "get_cache_hit_rate", "get_rollback_rate", "get_stale_statistics",
      "get_bgwriter_stats", "get_checkpointer_stats",
      "get_checkpointer_write_sync_time", "get_lock_waiters", "get_table_bloat",
      "get_index_bloat", "get_database_sizes">>

Min(a, b) == IF a < b THEN a ELSE b

Slices(list) ==
    {SubSeq(list, a, Min(a + MaxChecks - 1, Len(list))) : a \in 1..Len(list)}

\* =========================================================== PolarDBCheckAgent
\* A PolarDB result: the dict run_check returns.
PolarResult(skill, status, data, message, raw_output) ==
    [skill |-> skill, status |-> status, data |-> data, message |-> message,
     raw_output |-> raw_output]

\* PolarDBCheckAgent.run_check; proc.output is stdout, or stderr when stdout
\* is blank: "" (blank), "garbage" (not JSON) or "json"
run_check(check_name, proc) ==
    IF proc.exc = "timeout"
    THEN PolarResult(check_name, "timeout", <<>>, "Check timed out after 60 seconds", "")
    ELSE IF proc.exc # "none"
    THEN PolarResult(check_name, "error", <<>>, "[Errno 8] Exec format error", "")
    ELSE IF proc.output = "json" THEN proc.json
    ELSE PolarResult(check_name, "unknown", <<>>, "", proc.output)

Finding(type, check, message, recommendation) ==
    [type |-> type, check |-> check, message |-> message,
     recommendation |-> recommendation]

\* data.get("status") == "success" and data.get("data")
PolarUsable(results_, check) ==
    /\ DictHas(results_, check)
    /\ Get(DictGet(results_, check), "status", "") = "success"
    /\ Get(DictGet(results_, check), "data", <<>>) # <<>>

\* the row at the end of the list
LastRow(results_, check) ==
    DictGet(results_, check).data[Len(DictGet(results_, check).data)]

\* data["data"][0]
FirstRow(results_, check) == DictGet(results_, check).data[1]

\* PolarDBCheckAgent.analyze_results, one block per operator; a = [results,
\* issues, warnings]
analyze_node_type(a) ==
    IF PolarUsable(a.results, "get_polar_node_type")
    THEN [a EXCEPT !.results =
            DictSet(@, "node_info", FirstRow(a.results, "get_polar_node_type"))]
    ELSE a

\* if lag_bytes > 1073741824 ... elif lag_bytes > 104857600 ...
polar_lag_type(lag_bytes) ==
    IF lag_bytes > PolarLagErrorBytes THEN "critical"
    ELSE IF lag_bytes > PolarLagWarningBytes THEN "warning"
    ELSE "none"

analyze_logindex(a) ==
    IF PolarUsable(a.results, "get_logindex_status")
    THEN LET lag_bytes == Get(FirstRow(a.results, "get_logindex_status"), "lag_bytes", 0)
         IN IF polar_lag_type(lag_bytes) = "critical"
            THEN [a EXCEPT !.issues = Append(@, Finding("critical", "get_logindex_status",
                    "LogIndex replay lag is critical",
                    "Check storage I/O performance and network bandwidth"))]
            ELSE IF polar_lag_type(lag_bytes) = "warning"
            THEN [a EXCEPT !.warnings = Append(@, Finding("warning", "get_logindex_status",
                    "LogIndex replay lag is elevated", "Monitor storage I/O performance"))]
            ELSE a
    ELSE a

analyze_connection_usage(a) ==
    IF PolarUsable(a.results, "get_connection_usage")
    THEN LET conn_info == FirstRow(a.results, "get_connection_usage")
             current == Get(conn_info, "current_connections", 0)
             max_conn == Get(conn_info, "max_connections", 100)
             \* usage_pct = (current / max_conn) * 100 if max_conn > 0 else 0
             critical == max_conn > 0 /\ current * 100 > ConnErrorPct * max_conn
             high == max_conn > 0 /\ current * 100 > ConnWarningPct * max_conn
         IN IF critical
            THEN [a EXCEPT !.issues = Append(@, Finding("critical", "get_connection_usage",
                    "Connection usage is critical",
                    "Increase max_connections or optimize connection pooling"))]
            ELSE IF high
            THEN [a EXCEPT !.warnings = Append(@, Finding("warning", "get_connection_usage",
                    "Connection usage is high",
                    "Monitor connection growth and consider connection pooling"))]
            ELSE a
    ELSE a

analyze_cache_hit_rate(a) ==
    IF PolarUsable(a.results, "get_cache_hit_rate")
    THEN IF Get(FirstRow(a.results, "get_cache_hit_rate"), "hit_ratio", 100)
              < CacheHitThreshold
         THEN [a EXCEPT !.warnings = Append(@, Finding("warning", "get_cache_hit_rate",
                 "Cache hit rate is low", "Increase shared_buffers or optimize queries"))]
         ELSE a
    ELSE a

analyze_long_running_queries(a) ==
    IF PolarUsable(a.results, "get_long_running_queries")
    THEN IF Get(FirstRow(a.results, "get_long_running_queries"), "count", 0) > 0
         THEN [a EXCEPT !.warnings = Append(@, Finding("warning", "get_long_running_queries",
                 "Found long-running queries (>5 minutes)", "Review and optimize slow queries"))]
         ELSE a
    ELSE a

analyze_replication_status(a) ==
    IF PolarUsable(a.results, "get_replication_status")
    THEN LET lag_bytes == Get(FirstRow(a.results, "get_replication_status"),
                              "replication_lag_bytes", 0)
         IN IF polar_lag_type(lag_bytes) = "critical"
            THEN [a EXCEPT !.issues = Append(@, Finding("critical", "get_replication_status",
                    "Replication lag is critical", "Check storage I/O and network performance"))]
            ELSE IF polar_lag_type(lag_bytes) = "warning"
            THEN [a EXCEPT !.warnings = Append(@, Finding("warning", "get_replication_status",
                    "Replication lag is elevated", "Monitor replication health"))]
            ELSE a
    ELSE a

analyze_wal_archiver(a) ==
    IF PolarUsable(a.results, "get_wal_archiver_status")
    THEN IF Get(FirstRow(a.results, "get_wal_archiver_status"), "failed_archives", 0) > 0
         THEN [a EXCEPT !.issues = Append(@, Finding("critical", "get_wal_archiver_status",
                 "WAL archiving has failures",
                 "Check archive_command configuration and storage availability"))]
         ELSE a
    ELSE a

analyze_results(results_, issues_, warnings_) ==
    analyze_wal_archiver(analyze_replication_status(analyze_long_running_queries(
      analyze_cache_hit_rate(analyze_connection_usage(analyze_logindex(
        analyze_node_type([results |-> results_, issues |-> issues_,
                           warnings |-> warnings_])))))))

\* A line of the PolarDB report: the section it belongs to, what it is, the
\* check it names and the value it shows.
PLineN(sec, kind, name, val, num) ==
    [sec |-> sec, kind |-> kind, name |-> name, val |-> val, num |-> num]
PLine(sec, kind, name, val) == PLineN(sec, kind, name, val, 0)

overall_status_of(issues_, warnings_) ==
    IF issues_ # <<>> THEN "CRITICAL"
    ELSE IF warnings_ # <<>> THEN "WARNING"
    ELSE "HEALTHY"

status_icon(status) ==
    IF status = "success" THEN "check"
    ELSE IF status = "warning" THEN "warn"
    ELSE IF status = "error" THEN "cross"
    ELSE "info"

\* result.get("message", default); a result without the key has message ""
MessageOr(result, default) ==
    IF Get(result, "message", "") = "" THEN default ELSE result.message

\* the "PolarDB-Specific Status" sections of generate_report
polar_sections(results_) ==
    (IF PolarUsable(results_, "get_polar_node_type")
     THEN <<PLine("polar", "title", "Node Information", ""),
            PLine("polar", "item", "Node Type", ""),
            PLine("polar", "item", "PolarDB Version", "")>>
     ELSE <<>>)
    \o (IF DictHas(results_, "get_logindex_status")
        THEN <<PLine("polar", "title", "LogIndex Status", "")>>
             \o (IF PolarUsable(results_, "get_logindex_status")
                 THEN <<PLine("polar", "item", "Replay Lag", ""),
                        PLine("polar", "item", "Node Role", "")>>
                 ELSE <<PLine("polar", "item", "Status",
                              MessageOr(DictGet(results_, "get_logindex_status"),
                                        "Unknown"))>>)
        ELSE <<>>)
    \o (IF DictHas(results_, "get_pfs_usage")
        THEN <<PLine("polar", "title", "Storage Usage", "")>>
             \o (IF PolarUsable(results_, "get_pfs_usage")
                 THEN <<PLine("polar", "item", "Database Size", "")>>
                 ELSE <<>>)
        ELSE <<>>)
    \o (IF DictHas(results_, "get_px_workers_status")
        THEN <<PLine("polar", "title", "MPP/HTAP Status", "")>>
             \o (IF PolarUsable(results_, "get_px_workers_status")
                 THEN <<PLine("polar", "item", "MPP Enabled", ""),
                        PLine("polar", "item", "Max Workers", ""),
                        PLine("polar", "item", "DOP per Node", ""),
                        PLine("polar", "item", "Active Parallel Queries", "")>>
                 ELSE <<>>)
        ELSE <<>>)

\* "## Critical Issues" / "## Warnings": a heading, then three lines a finding
finding_section(sec, findings_) ==
    LET f[i \in 0..Len(findings_)] ==
            IF i = 0 THEN <<PLine(sec, "heading", "", "")>>
            ELSE f[i - 1] \o
                 <<PLineN(sec, "title", findings_[i].check, "", i),
                   PLine(sec, "message", findings_[i].check, findings_[i].message),
                   PLine(sec, "recommendation", findings_[i].check,
                         findings_[i].recommendation)>>
    IN IF findings_ = <<>> THEN <<>> ELSE f[Len(findings_)]

\* the lines of one iteration of "for check_name, result in self.results.items()"
detail_block(check_name, result) ==
    LET status == Get(result, "status", "unknown")
        message == Get(result, "message", "")
    IN <<PLine("details", "title", check_name, status_icon(status)),
         PLine("details", "status", check_name, status)>>
       \o (IF message # "" THEN <<PLine("details", "message", check_name, message)>>
           ELSE <<>>)
       \o (IF Get(result, "data", <<>>) # <<>>
           THEN <<PLine("details", "data", check_name, "json")>> ELSE <<>>)

detail_sections(results_) ==
    LET f[i \in 0..Len(results_)] ==
            IF i = 0 THEN <<>>
            ELSE f[i - 1] \o detail_block(results_[i][1], results_[i][2])
    IN f[Len(results_)]

\* the section with the warnings listed before the issues
recommendations_warnings_first(issues_, warnings_) ==
    IF issues_ # <<>> \/ warnings_ # <<>>
    THEN <<PLine("recommendations", "heading", "Immediate Actions", "")>>
         \o [i \in 1..Len(warnings_) |->
               PLine("recommendations", "warning", warnings_[i].check,
                     warnings_[i].recommendation)]
         \o [i \in 1..Len(issues_) |->
               PLine("recommendations", "critical", issues_[i].check,
                     issues_[i].recommendation)]
    ELSE <<PLine("recommendations", "healthy", "",
                 "System appears healthy. Continue regular monitoring.")>>

recommendations(issues_, warnings_) ==
    IF issues_ # <<>> \/ warnings_ # <<>>
    THEN <<PLine("recommendations", "heading", "Immediate Actions", "")>>
         \o [i \in 1..Len(issues_) |->
               PLine("recommendations", "critical", issues_[i].check,
                     issues_[i].recommendation)]
         \o [i \in 1..Len(warnings_) |->
               PLine("recommendations", "warning", warnings_[i].check,
                     warnings_[i].recommendation)]
    ELSE <<PLine("recommendations", "healthy", "",
                 "System appears healthy. Continue regular monitoring.")>>

\* PolarDBCheckAgent.generate_report: the list report_lines
polar_report_lines(results_, issues_, warnings_) ==
    <<PLine("banner", "overall", "", overall_status_of(issues_, warnings_)),
      PLineN("summary", "critical", "", "", Len(issues_)),
      PLineN("summary", "warnings", "", "", Len(warnings_)),
      PLineN("summary", "checks", "", "", Len(results_))>>
    \o polar_sections(results_)
    \o finding_section("critical", issues_)
    \o finding_section("warnings", warnings_)
    \o detail_sections(results_)
    \o recommendations(issues_, warnings_)

PolarRows(check) ==
    CASE check = "get_polar_node_type" ->
           {[node_type |-> "primary", polar_version |-> "2.0"]}
      [] check = "get_logindex_status" ->
           {[lag_bytes |-> l, lag_mb |-> 0, node_role |-> "primary"] :
              l \in {PolarLagWarningBytes, PolarLagWarningBytes + 1,
                     PolarLagErrorBytes, PolarLagErrorBytes + 1}}
      [] check = "get_pfs_usage" -> {[database_size_mb |-> 10]}
      [] check = "get_px_workers_status" -> {[polar_enable_px |-> "on"]}
      [] check = "get_connection_usage" ->
           {[current_connections |-> u, max_connections |-> 100] : u \in {80, 81, 95, 96}}
             \cup {[current_connections |-> 5, max_connections |-> 0],
                   [max_connections |-> 100]}
      [] check = "get_cache_hit_rate" -> {[hit_ratio |-> r] : r \in {97, 100}}
      [] check = "get_long_running_queries" -> {[count |-> c] : c \in {0, 3}}
      [] check = "get_replication_status" ->
           {[replication_lag_bytes |-> l] :
              l \in {PolarLagWarningBytes, PolarLagWarningBytes + 1,
                     PolarLagErrorBytes, PolarLagErrorBytes + 1}}
      [] check = "get_wal_archiver_status" -> {[failed_archives |-> f] : f \in {0, 2}}
      [] OTHER -> {[value |-> 1]}

\* the row lists a check can return; analyze_results reads data[0] alone,
\* so one row after the first stands for all that follow
PolarData(check) == SeqsUpTo(PolarRows(check), Min(MaxRows, 2))

PolarProc(exc, output, json) == [exc |-> exc, output |-> output, json |-> json]

PolarProcs(check) ==
    LET none == PolarResult(check, "unknown", <<>>, "", "")
    IN {PolarProc("timeout", "", none), PolarProc("oserror", "", none),
        PolarProc("none", "", none), PolarProc("none", "garbage", none),
        PolarProc("none", "json", PolarResult(check, "fail", <<>>, "connection refused", ""))}
         \cup {PolarProc("none", "json", PolarResult(check, "success", d, "", "")) :
                 d \in PolarData(check)}

\* the modelled entries of run_all_checks' five lists, in the source's order
PolarChecklist ==
    <<"get_polar_node_type", "get_logindex_status", "get_pfs_usage",
      "get_polar_activity", "get_px_workers_status", "get_connection_usage",
      "get_cache_hit_rate", "get_long_running_queries", "get_replication_status",
      "get_wal_archiver_status">>

\* ================================================================ the state
VARIABLES
    agent,          \* "postgres" or "polardb": the script that runs
    checklist,      \* the checks of this run, in order
    idx,            \* how many of them the loop has processed
    pc,             \* where the run is
    report,         \* PostgresAgent.report
    report_status,  \* PostgresAgent.report_status
    raw_results,    \* PostgresAgent.raw_results
    report_file,    \* daily_health_report.md
    raw_data_file,  \* daily_health_raw_data.json
    results,        \* PolarDBCheckAgent.results
    issues,         \* PolarDBCheckAgent.issues
    warnings,       \* PolarDBCheckAgent.warnings
    report_lines,   \* the report PolarDBCheckAgent.generate_report returns
    exit_code,      \* the exit code of the process, -1 while it runs
    calls,          \* history: <<check, severity>> of every _update_status call
    owner           \* history: for every line of report, the check that wrote it

vars == <<agent, checklist, idx, pc, report, report_status, raw_results,
          report_file, raw_data_file, results, issues, warnings, report_lines,
          exit_code, calls, owner>>

pg_vars == <<report, report_status, raw_results, report_file, raw_data_file,
             calls, owner>>
polar_vars == <<results, issues, warnings, report_lines>>

Init ==
    /\ agent \in {"postgres", "polardb"}
    /\ checklist \in (IF agent = "postgres" THEN Slices(PgChecklist)
                      ELSE Slices(PolarChecklist))
    /\ idx = 0
    /\ pc = "checks"
    /\ report = <<>>
    /\ report_status = OK
    /\ raw_results = <<>>
    /\ report_file = [written |-> FALSE, overall_status |-> "", lines |-> <<>>]
    /\ raw_data_file = [written |-> FALSE, overall_status |-> "", results |-> <<>>]
    /\ results = <<>>
    /\ issues = <<>>
    /\ warnings = <<>>
    /\ report_lines = <<>>
    /\ exit_code = -1
    /\ calls = <<>>
    /\ owner = <<>>

\* the owner of every line after a check: lines the check appended or changed
\* are its own
owner_after(owner_, before, after, check) ==
    [k \in 1..Len(after) |->
        IF k > Len(before) \/ k > Len(owner_) THEN check
        ELSE IF after[k] # before[k] THEN check
        ELSE owner_[k]]

\* the store keyed by the name the result carries
store_raw_result_by_own_name(raw_results_, skill, result) ==
    DictSet(raw_results_, Get(result, "skill", "unknown_skill"), result)

\* self.raw_results[skill] = result
store_raw_result(raw_results_, skill, result) == DictSet(raw_results_, skill, result)

\* one iteration of the loop of PostgresAgent.run_checks; when an exception
\* leaves _analyze_and_report the script ends with a traceback
pg_run_checks ==
    /\ agent = "postgres" /\ pc = "checks" /\ idx < Len(checklist)
    /\ \E proc \in PgProcs(checklist[idx + 1]) :
         LET skill == checklist[idx + 1]
             result == run_skill(skill, proc)
             s == analyze_and_report(report, result)
             new_report == IF s.raised THEN s.report ELSE Append(s.report, Separator)
         IN /\ raw_results' = store_raw_result(raw_results, skill, result)
            /\ report' = new_report
            /\ report_status' = FoldStatus(report_status, s.calls)
            /\ calls' = calls \o [i \in 1..Len(s.calls) |-> <<skill, s.calls[i]>>]
            /\ owner' = owner_after(owner, report, new_report, skill)
            /\ idx' = idx + 1
            /\ pc' = IF s.raised THEN "crashed"
                     ELSE IF idx + 1 = Len(checklist) THEN "generate_report"
                     ELSE "checks"
    /\ UNCHANGED <<agent, checklist, report_file, raw_data_file, exit_code>>
    /\ UNCHANGED polar_vars

\* the clean-up that pops one separator and stops
strip_last_separator(report_) ==
    IF report_ # <<>> /\ report_[Len(report_)] = Separator
    THEN SubSeq(report_, 1, Len(report_) - 1)
    ELSE report_

\* while self.report and self.report[-1] == "\n---\n": self.report.pop()
RECURSIVE strip_separators(_)
strip_separators(report_) ==
    IF report_ # <<>> /\ report_[Len(report_)] = Separator
    THEN strip_separators(SubSeq(report_, 1, Len(report_) - 1))
    ELSE report_

\* PostgresAgent.generate_report
pg_generate_report ==
    /\ agent = "postgres" /\ pc = "generate_report"
    /\ report' = strip_separators(report)
    /\ owner' = SubSeq(owner, 1, Len(strip_separators(report)))
    /\ report_file' = [written |-> TRUE, overall_status |-> report_status,
                       lines |-> strip_separators(report)]
    /\ raw_data_file' = [written |-> TRUE, overall_status |-> report_status,
                         results |-> raw_results]
    /\ pc' = "done"
    /\ UNCHANGED <<agent, checklist, idx, report_status, raw_results, exit_code, calls>>
    /\ UNCHANGED polar_vars

\* the end of the script: no sys.exit, so 0 unless a traceback ended it
pg_exit ==
    /\ agent = "postgres" /\ pc \in {"done", "crashed"}
    /\ exit_code' = IF pc = "crashed" THEN 1 ELSE 0
    /\ pc' = "exited"
    /\ UNCHANGED <<agent, checklist, idx>>
    /\ UNCHANGED pg_vars
    /\ UNCHANGED polar_vars

\* one iteration of the loops of PolarDBCheckAgent.run_all_checks
polar_run_all_checks ==
    /\ agent = "polardb" /\ pc = "checks" /\ idx < Len(checklist)
    /\ \E proc \in PolarProcs(checklist[idx + 1]) :
         results' = DictSet(results, checklist[idx + 1],
                            run_check(checklist[idx + 1], proc))
    /\ idx' = idx + 1
    /\ pc' = IF idx + 1 = Len(checklist) THEN "analyze_results" ELSE "checks"
    /\ UNCHANGED <<agent, checklist, issues, warnings, report_lines, exit_code>>
    /\ UNCHANGED pg_vars

\* PolarDBCheckAgent.analyze_results, called by run
polar_analyze_results ==
    /\ agent = "polardb" /\ pc = "analyze_results"
    /\ LET a == analyze_results(results, issues, warnings)
       IN /\ results' = a.results
          /\ issues' = a.issues
          /\ warnings' = a.warnings
    /\ pc' = "generate_report"
    /\ UNCHANGED <<agent, checklist, idx, report_lines, exit_code>>
    /\ UNCHANGED pg_vars

\* PolarDBCheckAgent.generate_report and save_report, called by run
polar_generate_report ==
    /\ agent = "polardb" /\ pc = "generate_report"
    /\ report_lines' = polar_report_lines(results, issues, warnings)
    /\ pc' = "done"
    /\ UNCHANGED <<agent, checklist, idx, results, issues, warnings, exit_code>>
    /\ UNCHANGED pg_vars

\* run returns len(self.issues) == 0 and main calls sys.exit(0 if success else 1)
run_returns(issues_, warnings_) == issues_ = <<>>

polar_exit ==
    /\ agent = "polardb" /\ pc = "done"
    /\ exit_code' = IF run_returns(issues, warnings) THEN 0 ELSE 1
    /\ pc' = "exited"
    /\ UNCHANGED <<agent, checklist, idx>>
    /\ UNCHANGED pg_vars
    /\ UNCHANGED polar_vars

Next ==
    \/ pg_run_checks
    \/ pg_generate_report
    \/ pg_exit
    \/ polar_run_all_checks
    \/ polar_analyze_results
    \/ polar_generate_report
    \/ polar_exit

Spec == Init /\ [][Next]_vars

\* Both scripts are sequential programs, and every wait for a check process
\* is bounded by the timeout of subprocess.run: a step that can be taken is
\* taken.
FairSpec == Spec /\ WF_vars(Next)

\* ================================================================ properties
Range(q) == {q[i] : i \in DOMAIN q}
Count(q, v) == Cardinality({i \in DOMAIN q : q[i] = v})
MaxOf(S) == IF S = {} THEN 0 ELSE CHOOSE m \in S : \A x \in S : x <= m
Pos(list, x) == CHOOSE i \in 1..Len(list) : list[i] = x

\* the sequences with the same elements as q, each as often: its permutations
Rearrangements(q) ==
    {p \in [DOMAIN q -> Range(q)] : \A v \in Range(q) : Count(p, v) = Count(q, v)}

CallSeverities == [i \in 1..Len(calls) |-> calls[i][2]]
CallsOf(check) == SelectSeq(calls, LAMBDA c : c[1] = check)

SeverityOfType(type) ==
    IF type = "critical" THEN ERROR ELSE IF type = "warning" THEN WARNING ELSE OK
SeverityOfBanner(banner) ==
    IF banner = "CRITICAL" THEN ERROR ELSE IF banner = "WARNING" THEN WARNING ELSE OK

\* the overall severity of the run, as the agent that runs shows it
OverallSeverity ==
    IF agent = "postgres" THEN report_status
    ELSE SeverityOfBanner(overall_status_of(issues, warnings))

\* the blocks of a PostgresAgent report: the lines between the separators
Split(lines) ==
    LET f[i \in 0..Len(lines)] ==
            IF i = 0 THEN << <<>> >>
            ELSE LET prev == f[i - 1]
                 IN IF lines[i] = Separator THEN Append(prev, <<>>)
                    ELSE [prev EXCEPT ![Len(prev)] = Append(@, lines[i])]
    IN f[Len(lines)]
Block(lines, k) ==
    LET blocks == Split(lines)
    IN IF k <= Len(blocks) THEN blocks[k] ELSE <<>>

HeaderRank(line) == IF line.h THEN Rank(line.sev) ELSE 0
PgResultOf(k) == DictGet(raw_results, checklist[k])
PolarResultOf(k) == DictGet(results, checklist[k])
PolarFindings == issues \o warnings
Analyzed == agent = "polardb" /\ pc \in {"generate_report", "done", "exited"}

\* C1: the overall severity is the maximum of the severities of the findings
\* raised so far (OK when there are none), and folding the same findings in
\* any other order gives the same severity; the PolarDB banner is the maximum
\* of the severities of the findings in the issues and warnings lists.
C1_OverallIsJoin ==
    /\ agent = "postgres" =>
         /\ Rank(report_status) = MaxOf({Rank(calls[i][2]) : i \in 1..Len(calls)})
         /\ \A p \in Rearrangements(CallSeverities) : FoldStatus(OK, p) = report_status
    /\ agent = "polardb" =>
         /\ Rank(OverallSeverity)
              = MaxOf({Rank(SeverityOfType(PolarFindings[i].type)) :
                         i \in 1..Len(PolarFindings)})
         /\ pc \in {"done", "exited"} =>
              report_lines[1].val = overall_status_of(issues, warnings)

C1_Witness ==
    /\ agent = "postgres" /\ pc = "done" /\ report_status = ERROR
    /\ \E i, j \in 1..Len(calls) : i < j /\ calls[i][2] = ERROR /\ calls[j][2] = WARNING

\* C2: report_status is always one of OK, WARNING, ERROR; no _update_status
\* call of the run lowered it, and no step of the run lowers it.
StatusAfter(n) == FoldStatus(OK, SubSeq(CallSeverities, 1, n))
C2_StatusNeverDecreases ==
    /\ [](/\ report_status \in Severity
          /\ \A n \in 1..Len(calls) : Rank(StatusAfter(n)) >= Rank(StatusAfter(n - 1)))
    /\ [][Rank(report_status') >= Rank(report_status)]_vars

C2_Witness ==
    /\ agent = "postgres" /\ report_status = ERROR
    /\ \E i, j \in 1..Len(calls) :
         i < j /\ calls[i][1] # calls[j][1] /\ calls[i][2] = ERROR /\ calls[j][2] = WARNING

\* C3: every check whose result is not a success gives exactly one ERROR
\* finding, which carries the raw error text, and its rule is not applied:
\* in PostgresAgent the block of the check is the failure header and the
\* error details and the check made one _update_status call, with ERROR; in
\* PolarDBCheckAgent the issues list holds exactly one finding of the check,
\* with the result's text, and the warnings list none.
PgFailureIsOneError ==
    agent = "postgres" =>
      \A k \in 1..idx :
        PgResultOf(k).status # "success" =>
          /\ CallsOf(checklist[k]) = << <<checklist[k], ERROR>> >>
          /\ Block(report, k) = <<HdrA(ERROR, "Skill Failed", PgResultOf(k).skill),
                                  BodyA("Error details", PgResultOf(k).err)>>
PolarFailureIsOneError ==
    Analyzed =>
      \A k \in 1..Len(checklist) :
        PolarResultOf(k).status # "success" =>
          /\ Cardinality({i \in 1..Len(issues) : issues[i].check = checklist[k]}) = 1
          /\ \A i \in 1..Len(issues) :
               issues[i].check = checklist[k] =>
                 issues[i].message \in {PolarResultOf(k).message,
                                        PolarResultOf(k).raw_output}
          /\ \A i \in 1..Len(warnings) : warnings[i].check # checklist[k]
C3_FailureIsOneError == PgFailureIsOneError /\ PolarFailureIsOneError

\* C4: when one check of the run timed out and no other check raised
\* anything, the run ends with overall severity ERROR and exactly one ERROR
\* finding, for that check, whose text contains "timed out".
ContainsTimedOut(text) ==
    text \in {ErrTimeout, "query timed out", "Check timed out after 60 seconds"}
PgTimedOut(k) == PgResultOf(k).status = "timeout" \/ PgResultOf(k).err = ErrTimeout
PgTimeoutIsError ==
    (agent = "postgres" /\ pc = "done") =>
      \A k \in 1..Len(checklist) :
        (/\ PgTimedOut(k)
         /\ \A m \in 1..Len(checklist) : m # k => CallsOf(checklist[m]) = <<>>) =>
          /\ report_status = ERROR
          /\ calls = << <<checklist[k], ERROR>> >>
          /\ \E i \in 1..Len(report) : report[i].txt = "Error details" /\ ContainsTimedOut(report[i].arg)
PolarTimeoutIsError ==
    (agent = "polardb" /\ pc = "done") =>
      \A k \in 1..Len(checklist) :
        (/\ PolarResultOf(k).status = "timeout"
         /\ \A m \in 1..Len(checklist) :
              m # k => /\ PolarResultOf(m).status = "success"
                       /\ \A i \in 1..Len(PolarFindings) :
                            PolarFindings[i].check # checklist[m]) =>
          /\ OverallSeverity = ERROR
          /\ report_lines[1].val = "CRITICAL"
          /\ Len(issues) = 1
          /\ issues[1].check = checklist[k]
          /\ ContainsTimedOut(issues[1].message)
C4_TimeoutIsError == PgTimeoutIsError /\ PolarTimeoutIsError

\* C5: the process exits with code 0 exactly when the run completed with
\* overall severity OK.
C5_ExitCodeIsSeverity ==
    (pc = "exited" /\ (report_file.written \/ report_lines # <<>>)) =>
      (exit_code = 0 <=> OverallSeverity = OK)

\* the worst severity a check passed to _update_status, as a rank
WorstRaised(check) ==
    MaxOf({Rank(CallsOf(check)[i][2]) : i \in 1..Len(CallsOf(check))})
\* the highest severity a header line of the block shows, as a rank
HeaderShown(block) == MaxOf({HeaderRank(block[i]) : i \in 1..Len(block)})
Headers(block) == SelectSeq(block, LAMBDA l : l.h)

\* C6: in the report written, the header of every block shows at least the
\* worst severity the check of the block passed to _update_status.
C6_HeaderShowsWorst ==
    (agent = "postgres" /\ report_file.written) =>
      \A k \in 1..Len(checklist) :
        HeaderShown(Block(report_file.lines, k)) >= WorstRaised(checklist[k])

\* C7: after a bloat check with N >= 1 rows of which one exceeds both bloat
\* thresholds, the first line of its block is the WARNING header, no INFO
\* header is left in the block, and the column header row, the separator
\* row and the N data rows follow unchanged.
BloatSkills == {"get_table_bloat", "get_index_bloat"}
ExceedsBloat(item) ==
    /\ Get(item, "bloat_percentage", 0) > BloatPctThreshold
    /\ Get(item, "wasted_bytes", 0) > BloatWastedMiB * MiB
C7_BloatHeaderRewritten ==
    (agent = "postgres" /\ pc # "crashed") =>
      \A k \in 1..idx :
        LET r == PgResultOf(k)
            b == Block(report, k)
            n == Len(r.data)
        IN (/\ checklist[k] \in BloatSkills /\ r.skill = checklist[k]
            /\ r.status = "success"
            /\ \E i \in 1..n : ExceedsBloat(r.data[i])) =>
             /\ Len(b) = n + 3
             /\ b[1].h /\ b[1].sev = WARNING /\ b[1].txt = "Significant Bloat Detected"
             /\ \A i \in 1..Len(b) : ~(b[i].h /\ b[i].sev = INFO)
             /\ b[2] = Body("| Schema | Name | Total Size | Bloat % | Wasted Space |")
             /\ b[3] = Body("|---|---|---|---|---|")
             /\ \A i \in 1..n : b[3 + i] = RowLine("bloat row", i)

\* C8: in the report written, the block of every check that failed or has a
\* rule holds exactly one header line.
C8_OneHeaderPerBlock ==
    (agent = "postgres" /\ report_file.written) =>
      \A k \in 1..Len(checklist) :
        (PgResultOf(k).status # "success" \/ PgResultOf(k).skill \in RecognizedSkills) =>
          Len(Headers(Block(report_file.lines, k))) = 1

\* C9: at the end of a run the report holds exactly one block per check of
\* the checklist, and no other block.
PgOneBlockPerCheck ==
    (/\ agent = "postgres" /\ report_file.written
     /\ \A k \in 1..Len(checklist) :
          PgResultOf(k).status # "success" \/ PgResultOf(k).skill \in RecognizedSkills) =>
      /\ Len(Split(report_file.lines)) = Len(checklist)
      /\ \A k \in 1..Len(checklist) : Block(report_file.lines, k) # <<>>
DetailTitles ==
    LET titles == SelectSeq(report_lines,
                            LAMBDA l : l.sec = "details" /\ l.kind = "title")
    IN [i \in 1..Len(titles) |-> titles[i].name]
PolarOneBlockPerCheck ==
    (agent = "polardb" /\ pc \in {"done", "exited"}) => DetailTitles = checklist
C9_OneBlockPerCheck == PgOneBlockPerCheck /\ PolarOneBlockPerCheck

\* C10: the blocks of the report are in checklist order: in PostgresAgent
\* every line of the report was written by the check whose position in the
\* checklist is one more than the number of separators before the line, so
\* all lines of an earlier check come before all lines of a later one; in
\* the PolarDB report the detail lines of an earlier check of the checklist
\* come before those of a later one.
SeparatorsBefore(lines) ==
    LET f[i \in 0..Len(lines)] ==
            IF i = 0 THEN <<>>
            ELSE LET prev == f[i - 1]
                 IN Append(prev, IF i = 1 THEN 0
                                 ELSE prev[i - 1] + IF lines[i - 1] = Separator THEN 1 ELSE 0)
    IN f[Len(lines)]
C10_BlocksInChecklistOrder ==
    /\ agent = "postgres" =>
         /\ Len(owner) = Len(report)
         /\ LET before == SeparatorsBefore(report)
            IN \A i \in 1..Len(report) :
                 /\ before[i] < Len(checklist)
                 /\ owner[i] = checklist[before[i] + 1]
         /\ \A i \in 1..(Len(owner) - 1) :
              Pos(checklist, owner[i]) <= Pos(checklist, owner[i + 1])
         /\ report_file.written => report_file.lines = report
    /\ agent = "polardb" =>
         \A a, b \in 1..Len(checklist) :
           a < b =>
             \A i \in 1..Len(report_lines) :
               (report_lines[i].sec = "details" /\ report_lines[i].name = checklist[a]) =>
                 \A j \in 1..Len(report_lines) :
                   (report_lines[j].sec = "details" /\ report_lines[j].name = checklist[b])
                     => i < j

C10_Witness ==
    /\ agent = "postgres" /\ pc = "done" /\ Len(checklist) >= 2
    /\ \E i \in 1..Len(report) :
         /\ report[i].txt = "Replication Lag Detected"
         /\ owner[i] = checklist[2]
    /\ \E i \in 1..Len(report) : owner[i] = checklist[1] /\ report[i] # Separator

\* C11: a run always completes: no check outcome ends the loop early, a
\* failed check still has its block, and the run eventually exits after
\* processing every checklist entry and writing its report.
RunCompleted ==
    /\ pc = "exited" /\ idx = Len(checklist)
    /\ agent = "postgres" => report_file.written /\ raw_data_file.written
    /\ agent = "polardb" => report_lines # <<>>
C11_RunAlwaysCompletes ==
    /\ [](pc # "crashed")
    /\ [](agent = "postgres" =>
            \A k \in 1..idx :
              PgResultOf(k).status # "success" => Block(report, k) # <<>>)
    /\ <>RunCompleted

\* C12: classification never raises on a success result whose rows lack
\* fields or hold degenerate values: the rule of every processed check
\* completes and the run goes on; in PolarDBCheckAgent a connection row
\* without current_connections or with max_connections = 0 gives no finding.
DegenerateConnRow(row) ==
    ~Has(row, "current_connections") \/ Get(row, "max_connections", 100) = 0
C12_ClassificationNeverRaises ==
    /\ agent = "postgres" =>
         /\ pc # "crashed"
         /\ \A k \in 1..idx :
              (PgResultOf(k).status = "success"
                 /\ PgResultOf(k).skill \in RecognizedSkills) =>
                /\ ~analyze_and_report(<<>>, PgResultOf(k)).raised
                /\ Block(report, k) # <<>>
    /\ Analyzed =>
         \A k \in 1..Len(checklist) :
           (/\ checklist[k] = "get_connection_usage"
            /\ PolarUsable(results, checklist[k])
            /\ DegenerateConnRow(FirstRow(results, checklist[k]))) =>
             \A i \in 1..Len(PolarFindings) : PolarFindings[i].check # checklist[k]

\* C13: classification is idempotent: classifying the same result a second
\* time leaves the findings of the check as they were after the first time.
\* In PolarDBCheckAgent a second analyze_results over the same results
\* leaves issues and warnings unchanged; in PostgresAgent a second
\* _analyze_and_report of the same result passes the same severities to
\* _update_status and leaves report_status unchanged.
C13_ClassificationIdempotent ==
    /\ Analyzed =>
         LET again == analyze_results(results, issues, warnings)
         IN again.issues = issues /\ again.warnings = warnings
    /\ (agent = "postgres" /\ pc # "crashed") =>
         \A k \in 1..idx :
           LET first == analyze_and_report(<<>>, PgResultOf(k))
               second == analyze_and_report(first.report, PgResultOf(k))
           IN /\ second.calls = first.calls
              /\ FoldStatus(report_status, second.calls) = report_status

\* C14: round trip: at the end of a run the check every finding names is a
\* key of the raw results mapping, and the result stored under that key is
\* the one the finding was derived from, also when the skill field of a
\* result differs from the checklist name.  In PostgresAgent the skill a
\* failure header names is a key of the results written to the raw data
\* file, and the result under it is the failure whose error text the block
\* shows; in PolarDBCheckAgent the check of every finding is a key of
\* results and the result under it is a success with rows.
C14_FindingsRoundTrip ==
    /\ (agent = "postgres" /\ raw_data_file.written) =>
         /\ \A i \in 1..Len(calls) : DictHas(raw_data_file.results, calls[i][1])
         /\ \A i \in 1..Len(report_file.lines) :
              (report_file.lines[i].h /\ report_file.lines[i].txt = "Skill Failed") =>
                /\ DictHas(raw_data_file.results, report_file.lines[i].arg)
                /\ DictGet(raw_data_file.results, report_file.lines[i].arg).status
                     # "success"
                /\ DictGet(raw_data_file.results, report_file.lines[i].arg).err
                     = report_file.lines[i + 1].arg
    /\ (agent = "polardb" /\ pc \in {"done", "exited"}) =>
         \A i \in 1..Len(PolarFindings) :
           /\ DictHas(results, PolarFindings[i].check)
           /\ PolarUsable(results, PolarFindings[i].check)

\* the processed checks whose result is a success with empty data for a
\* skill that has a rule
EmptySuccess(k) ==
    /\ PgResultOf(k).status = "success"
    /\ PgResultOf(k).data = <<>>
    /\ PgResultOf(k).skill \in RecognizedSkills
\* a line that reports OK or the absence of an issue
NoIssueTexts ==
    {"No significant bloat detected",
     "All databases are well below the wraparound threshold.",
     "Transaction rollback rates are within normal limits.",
     "No replication slots found.",
     "No active replicas found (normal for a standalone instance).",
     "No tables are currently approaching XID/MXID freeze limits.",
     "No sequences are nearing their exhaustion threshold.",
     "Table statistics appear to be up-to-date."}
ReportsNoIssue(line) == (line.h /\ line.sev = OK) \/ line.txt \in NoIssueTexts

C16_ReplicationSlotsNotes ==
    agent = "postgres" =>
      \A k \in 1..idx :
        (/\ PgResultOf(k).skill = "get_replication_slots"
         /\ PgResultOf(k).status = "success"
         /\ PgResultOf(k).data = <<>>) =>
          /\ CallsOf(checklist[k]) = <<>>
          /\ ContainsDoesNotExist(PgResultOf(k).notes) =>
               Block(report, k)
                 = <<Hdr(INFO, "Replication Slots Status"),
                     Body("Replication slots are not applicable or view does not exist.")>>
          /\ PgResultOf(k).notes = "" =>
               Block(report, k) = <<Hdr(INFO, "Replication Slots Status"),
                                    Body("No replication slots found.")>>

\* the severity the connection-usage table gives used / max * 100
ConnLevel(used, max_conn) ==
    IF used * 100 > 95 * max_conn THEN ERROR
    ELSE IF used * 100 > 80 * max_conn THEN WARNING
    ELSE OK
FindingsOf(findings_, check) == SelectSeq(findings_, LAMBDA f : f.check = check)

\* C17: in both agents a connection-usage row with max > 0 gives exactly one
\* ERROR finding above 95 percent, exactly one WARNING finding above 80 and
\* up to 95 percent, and no finding up to 80 percent; this holds for a row
\* of the shape {current_connections, max_connections} too.
PgConnectionThresholds ==
    agent = "postgres" =>
      \A k \in 1..idx :
        LET r == PgResultOf(k)
        IN (/\ checklist[k] = "get_connection_usage" /\ r.skill = checklist[k]
            /\ r.status = "success" /\ r.data # <<>>
            /\ Get(r.data[1], "max_connections", 0) > 0) =>
             LET used == Get(r.data[1], "used_connections",
                             Get(r.data[1], "current_connections", 0))
                 level == ConnLevel(used, r.data[1].max_connections)
             IN CallsOf(checklist[k])
                  = IF level = OK THEN <<>> ELSE << <<checklist[k], level>> >>
PolarConnectionThresholds ==
    Analyzed =>
      \A k \in 1..Len(checklist) :
        (/\ checklist[k] = "get_connection_usage"
         /\ PolarUsable(results, checklist[k])
         /\ Get(FirstRow(results, checklist[k]), "max_connections", 100) > 0) =>
          LET row == FirstRow(results, checklist[k])
              level == ConnLevel(Get(row, "current_connections", 0),
                                 Get(row, "max_connections", 100))
          IN /\ Len(FindingsOf(issues, checklist[k])) = IF level = ERROR THEN 1 ELSE 0
             /\ Len(FindingsOf(warnings, checklist[k])) = IF level = WARNING THEN 1 ELSE 0
C17_ConnectionThresholds == PgConnectionThresholds /\ PolarConnectionThresholds

\* the severity the lag table gives a lag in bytes: above 1 GiB ERROR, above
\* 100 MiB WARNING
LagLevel(lag_bytes) ==
    IF lag_bytes > 1073741824 THEN ERROR
    ELSE IF lag_bytes > 104857600 THEN WARNING
    ELSE OK
\* byte counts around both thresholds, and far from them
LagSamples ==
    {0, 1, 1048576, 104857599, 104857600, 104857601, 105906175, 105906176,
     1073741823, 1073741824, 1073741825, 1074790399, 1074790400, 2147483647}
RaisedLevels(data, field) ==
    LET levels == [i \in 1..Len(data) |-> LagLevel(Get(data[i], field, 0))]
    IN SelectSeq(levels, LAMBDA l : l # OK)

\* C18: a lag above 1 GiB gives ERROR, a lag above 100 MiB and up to 1 GiB
\* gives WARNING and a lag up to 100 MiB gives no finding: in PostgresAgent
\* for every replica row of get_replication_status, in PolarDBCheckAgent
\* for the first row of get_replication_status and get_logindex_status; and
\* the MB comparison of PostgresAgent gives every byte count the severity
\* the byte comparison of PolarDBCheckAgent gives it.
C18_LagThresholds ==
    /\ idx = 0 =>
         \A b \in LagSamples :
           /\ pg_lag_severity(b) = LagLevel(b)
           /\ SeverityOfType(polar_lag_type(b)) = pg_lag_severity(b)
    /\ agent = "postgres" =>
         \A k \in 1..idx :
           LET r == PgResultOf(k)
           IN (/\ checklist[k] = "get_replication_status" /\ r.skill = checklist[k]
               /\ r.status = "success") =>
                [i \in 1..Len(CallsOf(checklist[k])) |-> CallsOf(checklist[k])[i][2]]
                  = RaisedLevels(r.data, "replay_lag_bytes")
    /\ Analyzed =>
         \A k \in 1..Len(checklist) :
           (/\ checklist[k] \in {"get_replication_status", "get_logindex_status"}
            /\ PolarUsable(results, checklist[k])) =>
             LET field == IF checklist[k] = "get_logindex_status"
                          THEN "lag_bytes" ELSE "replication_lag_bytes"
                 level == LagLevel(Get(FirstRow(results, checklist[k]), field, 0))
             IN /\ Len(FindingsOf(issues, checklist[k])) = IF level = ERROR THEN 1 ELSE 0
                /\ Len(FindingsOf(warnings, checklist[k]))
                     = IF level = WARNING THEN 1 ELSE 0

C18_Witness ==
    /\ agent = "postgres" /\ pc = "done"
    /\ \E k \in 1..idx :
         /\ checklist[k] = "get_replication_status"
         /\ PgResultOf(k).status = "success" /\ Len(PgResultOf(k).data) = 2
         /\ PgResultOf(k).data[1].replay_lag_bytes = 1073741824
         /\ PgResultOf(k).data[2].replay_lag_bytes = 1073741825
         /\ CallsOf(checklist[k]) = << <<checklist[k], WARNING>>, <<checklist[k], ERROR>> >>

\* a row above both bloat thresholds of the table: more than 20 percent
\* bloat and more than 100 MiB wasted
ExceedsBoth(item) ==
    /\ Get(item, "bloat_percentage", 0) > 20
    /\ Get(item, "wasted_bytes", 0) > 104857600
RowsRendered(block, txt) ==
    LET rows == SelectSeq(block, LAMBDA l : l.txt = txt) IN [i \in 1..Len(rows) |-> rows[i].row]

\* C19: a bloat check raises WARNING (once) exactly when one of its rows is
\* above both thresholds at once, raises nothing otherwise, never raises
\* ERROR, and renders every row in order whether it raises or not.
C19_BloatClassification ==
    agent = "postgres" =>
      \A k \in 1..idx :
        LET r == PgResultOf(k)
        IN (/\ checklist[k] \in BloatSkills /\ r.skill = checklist[k]
            /\ r.status = "success") =>
             /\ CallsOf(checklist[k])
                  = IF \E i \in 1..Len(r.data) : ExceedsBoth(r.data[i])
                    THEN << <<checklist[k], WARNING>> >> ELSE <<>>
             /\ RowsRendered(Block(report, k), "bloat row") = [i \in 1..Len(r.data) |-> i]

C19_Witness ==
    /\ agent = "postgres" /\ pc = "done"
    /\ \E k \in 1..idx :
         /\ checklist[k] = "get_index_bloat" /\ PgResultOf(k).status = "success"
         /\ Len(PgResultOf(k).data) = 2
         /\ PgResultOf(k).data[1].bloat_percentage = 25
         /\ PgResultOf(k).data[1].wasted_bytes = 104857600
         /\ PgResultOf(k).data[2].bloat_percentage = 20
         /\ PgResultOf(k).data[2].wasted_bytes > 104857600
         /\ CallsOf(checklist[k]) = <<>>
         /\ Len(Block(report, k)) = 5

\* the finding the settings table of the specification gives a row
SettingLevel(item) ==
    IF item.name = "fsync" THEN (IF item.setting = "on" THEN OK ELSE ERROR)
    ELSE IF item.name = "synchronous_commit"
    THEN (IF item.setting \in {"on", "local"} THEN OK ELSE WARNING)
    ELSE OK
SettingLevels(data) ==
    SelectSeq([i \in 1..Len(data) |-> SettingLevel(data[i])], LAMBDA l : l # OK)
WorstOf(levels) ==
    IF \E i \in 1..Len(levels) : levels[i] = ERROR THEN ERROR
    ELSE IF \E i \in 1..Len(levels) : levels[i] = WARNING THEN WARNING
    ELSE OK

\* C20: in a critical-settings check a row fsync with a value other than
\* "on" raises ERROR, a row synchronous_commit with a value outside
\* {on, local} raises WARNING and any other row raises nothing; what the
\* block contributes to the overall severity is the worst of its rows, in
\* whatever order the rows come.
C20_CriticalSettings ==
    agent = "postgres" =>
      \A k \in 1..idx :
        LET r == PgResultOf(k)
        IN (/\ checklist[k] = "get_critical_settings" /\ r.skill = checklist[k]
            /\ r.status = "success") =>
             LET raised == CallsOf(checklist[k])
                 levels == [i \in 1..Len(raised) |-> raised[i][2]]
             IN /\ levels = SettingLevels(r.data)
                /\ FoldStatus(OK, levels) = WorstOf(SettingLevels(r.data))
                /\ Rank(report_status) >= Rank(WorstOf(SettingLevels(r.data)))

C20_Witness ==
    /\ agent = "postgres" /\ pc = "done" /\ report_status = ERROR
    /\ \E k \in 1..idx :
         /\ checklist[k] = "get_critical_settings"
         /\ PgResultOf(k).status = "success" /\ Len(PgResultOf(k).data) = 2
         /\ PgResultOf(k).data[1] = [name |-> "fsync", setting |-> "off"]
         /\ PgResultOf(k).data[2] = [name |-> "synchronous_commit", setting |-> "off"]
         /\ CallsOf(checklist[k]) = << <<checklist[k], ERROR>>, <<checklist[k], WARNING>> >>
         /\ \A j \in 1..idx : j # k => CallsOf(checklist[j]) = <<>>

\* the heading a checkpointer rule gives the ratio of requested checkpoints
RatioHeading(skill) ==
    IF skill = "get_checkpointer_stats"
    THEN Hdr(WARNING, "High ratio of requested checkpoints")
    ELSE Hdr(WARNING, "High Requested Checkpoint Ratio")
RequestedOf(skill, cp) ==
    IF skill = "get_checkpointer_stats" THEN Get(cp, "checkpoints_req", 0)
    ELSE Get(cp, "num_requested", 0)
TimedOf(skill, cp) ==
    IF skill = "get_checkpointer_stats" THEN Get(cp, "checkpoints_timed", 0)
    ELSE Get(cp, "num_timed", 0)
HasLine(block, line) == \E i \in 1..Len(block) : block[i] = line

\* C21: for both checkpointer skills, a row whose requested checkpoints
\* exceed twice its timed checkpoints raises a WARNING finding on that
\* ground, whatever the other fields of the row hold, and a row whose
\* requested checkpoints are at most twice the timed ones raises none on
\* that ground.
C21_CheckpointRatio ==
    agent = "postgres" =>
      \A k \in 1..idx :
        LET r == PgResultOf(k)
            skill == checklist[k]
        IN (/\ skill \in {"get_checkpointer_stats", "get_checkpointer_write_sync_time"}
            /\ r.skill = skill /\ r.status = "success" /\ r.data # <<>>) =>
             IF RequestedOf(skill, r.data[1]) > 2 * TimedOf(skill, r.data[1])
             THEN /\ HasLine(Block(report, k), RatioHeading(skill))
                  /\ <<skill, WARNING>> \in Range(CallsOf(skill))
             ELSE ~HasLine(Block(report, k), RatioHeading(skill))

\* the entries of the recommendations section, in the order of the report
RecLines ==
    SelectSeq(report_lines,
              LAMBDA l : l.sec = "recommendations" /\ l.kind # "heading")

\* C22: the recommendations section lists the recommendation of every
\* finding exactly once, the critical ones first and the warnings after
\* them, each group in discovery order; with no finding it holds the one
\* line "System appears healthy" instead.
C22_RecommendationsBySeverity ==
    (agent = "polardb" /\ pc \in {"done", "exited"}) =>
      IF PolarFindings = <<>>
      THEN Len(RecLines) = 1 /\ RecLines[1].kind = "healthy"
      ELSE /\ Len(RecLines) = Len(PolarFindings)
           /\ \A i \in 1..Len(RecLines) :
                /\ RecLines[i].name = PolarFindings[i].check
                /\ RecLines[i].val = PolarFindings[i].recommendation
                /\ RecLines[i].kind = PolarFindings[i].type
                /\ PolarFindings[i].type
                     = IF i <= Len(issues) THEN "critical" ELSE "warning"

C22_Witness ==
    /\ agent = "polardb" /\ pc = "done"
    /\ Len(issues) = 1 /\ Len(warnings) = 1
    /\ Pos(checklist, warnings[1].check) < Pos(checklist, issues[1].check)
    /\ Len(RecLines) = 2
    /\ RecLines[1].kind = "critical" /\ RecLines[2].kind = "warning"

\* C23: the raw JSON file holds one entry per skill of the checklist, in
\* checklist order, each the result stored when the skill was run (no later
\* step changes an entry once it is stored), and its overall_status is the
\* status of the report banner: the status after the last check was folded
\* in.
C23_RawDataOneToOne ==
    /\ []((agent = "postgres" /\ raw_data_file.written) =>
            /\ DictKeys(raw_data_file.results) = checklist
            /\ raw_data_file.results = raw_results
            /\ raw_data_file.overall_status = report_file.overall_status
            /\ raw_data_file.overall_status = FoldStatus(OK, CallSeverities))
    /\ [][agent = "postgres" =>
            /\ Len(raw_results') >= Len(raw_results)
            /\ \A k \in 1..Len(raw_results) : raw_results'[k] = raw_results[k]]_vars

C23_Witness ==
    /\ agent = "postgres" /\ raw_data_file.written
    /\ Len(raw_data_file.results) = 2
    /\ raw_data_file.overall_status = WARNING
    /\ raw_data_file.results[1][2].status = "success"
    /\ raw_data_file.results[1][2].data # <<>>
    /\ raw_data_file.results[2][2].status = "success"
    /\ CallsOf(checklist[1]) # <<>>

\* a check process that ended normally and printed no parseable JSON
PgNoJson(proc) ==
    proc.exc = "none" /\ proc.returncode = 0 /\ proc.stdout \in {"", "garbage"}
PolarNoJson(proc) == proc.exc = "none" /\ proc.output \in {"", "garbage"}

\* C24: when the check process prints no parseable JSON (nothing, or text
\* that is not JSON) the runner returns a result of status "fail", never
\* success or unknown, and the check is then classified as an ERROR: for
\* every check that has run and every such outcome of its process, and for
\* every stored PolarDB result that carries raw non-JSON text.
C24_UnparseableIsFail ==
    /\ agent = "postgres" =>
         \A k \in 1..idx :
           \A proc \in PgProcs(checklist[k]) :
             PgNoJson(proc) =>
               /\ run_skill(checklist[k], proc).status = "fail"
               /\ analyze_and_report(<<>>, run_skill(checklist[k], proc)).calls
                    = <<ERROR>>
    /\ agent = "polardb" =>
         \A k \in 1..Len(results) :
           Get(results[k][2], "raw_output", "") = "garbage" =>
             Get(results[k][2], "status", "") = "fail"

\* the values the specification gives the status field
StatusValues == {"success", "fail", "timeout", "unknown"}

\* C25: every result a runner returns, those it makes up itself on a
\* timeout, an exception, a non-zero exit or unparseable output included,
\* has a status among success, fail, timeout and unknown.
C25_RunnerStatusValues ==
    /\ agent = "postgres" =>
         \A k \in 1..Len(raw_results) :
           Get(raw_results[k][2], "status", "") \in StatusValues
    /\ agent = "polardb" =>
         \A k \in 1..Len(results) :
           DictKeys(results)[k] # "node_info" =>
             Get(results[k][2], "status", "") \in StatusValues

\* the PolarDB checks analyze_results has a rule for
PolarRuleTable ==
    {"get_polar_node_type", "get_logindex_status", "get_connection_usage",
     "get_cache_hit_rate", "get_long_running_queries", "get_replication_status",
     "get_wal_archiver_status"}

\* C26: a success result whose skill has no rule raises nothing (no
\* _update_status call, no entry in the issues or warnings) and is still
\* rendered: as a block of its own in the PostgresAgent report, as a detail
\* block with title, status icon and status in the PolarDB report.
C26_UnknownSkillPassthrough ==
    /\ agent = "postgres" =>
         \A k \in 1..idx :
           (/\ PgResultOf(k).status = "success"
            /\ PgResultOf(k).skill \notin RecognizedSkills) =>
             /\ CallsOf(checklist[k]) = <<>>
             /\ Block(report, k) # <<>>
    /\ (agent = "polardb" /\ pc \in {"done", "exited"}) =>
         \A k \in 1..Len(checklist) :
           (/\ checklist[k] \notin PolarRuleTable
            /\ Get(PolarResultOf(k), "status", "") = "success") =>
             /\ FindingsOf(PolarFindings, checklist[k]) = <<>>
             /\ \E i \in 1..Len(report_lines) :
                  report_lines[i] = PLine("details", "title", checklist[k],
                                          status_icon("success"))

\* the skills whose rule overwrites a line of the report
RewriteSkills ==
    {"get_table_bloat", "get_index_bloat", "get_freeze_prediction",
     "get_critical_settings", "get_replication_status"}
\* the block the rule of such a skill appends for non-empty data, before
\* any overwrite
PlainBlock(skill, data) ==
    LET title ==
          CASE skill = "get_table_bloat" -> HdrA(INFO, "Top 10 Bloated", "Table")
            [] skill = "get_index_bloat" -> HdrA(INFO, "Top 10 Bloated", "Index")
            [] skill = "get_freeze_prediction" ->
                 Hdr(INFO, "Freeze Storm Prediction (XID/MXID Wraparound)")
            [] skill = "get_critical_settings" -> Hdr(INFO, "Critical Settings Review")
            [] OTHER -> Hdr(INFO, "Replication Status")
        table ==
          CASE skill \in BloatSkills ->
                 <<Body("| Schema | Name | Total Size | Bloat % | Wasted Space |"),
                   Body("|---|---|---|---|---|")>>
            [] skill = "get_freeze_prediction" ->
                 <<Body("| Schema | Table Name | Total Size | XID Remain | MXID Remain | Status |"),
                   Body("|---|---|---|---|---|---|")>>
            [] skill = "get_critical_settings" ->
                 <<Body("| Setting | Value | Recommendation |"), Body("|---|---|---|")>>
            [] OTHER -> <<>>
        rows ==
          [i \in 1..Len(data) |->
             CASE skill \in BloatSkills -> RowLine("bloat row", i)
               [] skill = "get_freeze_prediction" -> RowLine("freeze row", i)
               [] skill = "get_critical_settings" ->
                    Mark(SettingLevel(data[i]), "setting row", i)
               [] OTHER -> RowLine("Replica, State, Replay Lag", i)]
    IN <<title>> \o table \o rows
\* whether the rule overwrites for this data
Overwrites(skill, data) ==
    \E i \in 1..Len(data) :
      CASE skill \in BloatSkills -> ExceedsBoth(data[i])
        [] skill = "get_freeze_prediction" ->
             data[i].freeze_status \in {"CRITICAL", "WARNING", "XID_OVERDUE", "MXID_OVERDUE"}
        [] skill = "get_critical_settings" -> SettingLevel(data[i]) = ERROR
        [] OTHER -> LagLevel(Get(data[i], "replay_lag_bytes", 0)) # OK

\* C27: a header overwrite of the bloat, freeze, settings and replication
\* rules changes exactly one line, a line of the block being assembled,
\* and leaves the length of the report as it is: the block differs from
\* the lines the rule appended in one place when the rule overwrites and
\* in none when it does not, and no step changes a line or a separator
\* that was in the report before the step.
C27_OverwriteStaysInBlock ==
    /\ [](agent = "postgres" =>
            \A k \in 1..idx :
              LET r == PgResultOf(k)
                  skill == checklist[k]
              IN (/\ skill \in RewriteSkills /\ r.skill = skill
                  /\ r.status = "success" /\ r.data # <<>>) =>
                   LET block == Block(report, k)
                       plain == PlainBlock(skill, r.data)
                   IN /\ Len(block) = Len(plain)
                      /\ Cardinality({i \in 1..Len(plain) : block[i] # plain[i]})
                           = IF Overwrites(skill, r.data) THEN 1 ELSE 0)
    /\ [][(agent = "postgres" /\ pc = "checks") =>
            /\ Len(report') >= Len(report)
            /\ \A i \in 1..Len(report) : report'[i] = report[i]]_vars

C27_Witness ==
    /\ agent = "postgres" /\ pc = "generate_report" /\ idx = 2
    /\ checklist[2] = "get_critical_settings"
    /\ PgResultOf(2).status = "success" /\ Len(PgResultOf(2).data) = 2
    /\ Overwrites("get_critical_settings", PgResultOf(2).data)
    /\ Block(report, 1) # <<>>
    /\ Block(report, 2)[2] = Hdr(ERROR, "Critical Settings Misconfiguration")

\* the results with every row list cut down to its first row
FirstRowsOnly(results_) ==
    [i \in 1..Len(results_) |->
       IF results_[i][1] # "node_info" /\ Get(results_[i][2], "data", <<>>) # <<>>
       THEN <<results_[i][1], [results_[i][2] EXCEPT !.data = <<@[1]>>]>>
       ELSE results_[i]]

\* C28: in PolarDBCheckAgent.analyze_results rows after the first never
\* change the findings (the analysis of the results cut down to their
\* first rows gives the same issues and warnings), every check has at
\* most one finding from the pass, and no check is in both lists.
C28_FirstRowOnly ==
    Analyzed =>
      /\ analyze_results(FirstRowsOnly(results), <<>>, <<>>).issues = issues
      /\ analyze_results(FirstRowsOnly(results), <<>>, <<>>).warnings = warnings
      /\ \A k \in 1..Len(checklist) :
           Len(FindingsOf(issues, checklist[k]))
             + Len(FindingsOf(warnings, checklist[k])) <= 1

C28_Witness ==
    /\ Analyzed
    /\ \E k \in 1..Len(checklist) :
         /\ checklist[k] = "get_replication_status"
         /\ PolarUsable(results, checklist[k])
         /\ Len(PolarResultOf(k).data) = 2
         /\ PolarResultOf(k).data[1].replication_lag_bytes = 104857600
         /\ PolarResultOf(k).data[2].replication_lag_bytes = 1073741825
         /\ FindingsOf(PolarFindings, checklist[k]) = <<>>

\* the note _run_skill writes for a non-zero exit whose stderr holds "does
\* not exist"
RunnerNote == "view or table does not exist: relation does not exist"
WorstOfOthers(k) ==
    MaxOf({Rank(calls[i][2]) : i \in {j \in 1..Len(calls) : calls[j][1] # checklist[k]}})

\* C29: a check process that exits non-zero gives a result of status
\* "fail", hence one ERROR block and overall ERROR, unless its stderr holds
\* "does not exist": then the result is a success with empty data and a
\* note, the check raises nothing and the overall severity stays what the
\* other checks made it, for every skill.
C29_NonZeroExit ==
    agent = "postgres" =>
      /\ idx = 0 =>
           \A k \in 1..Len(checklist) :
             \A proc \in PgProcs(checklist[k]) :
               (proc.exc = "none" /\ proc.returncode # 0) =>
                 run_skill(checklist[k], proc)
                   = IF proc.stderr = StderrDoesNotExist
                     THEN PgResult(checklist[k], "success", <<>>, RunnerNote, "")
                     ELSE PgResult(checklist[k], "fail", <<>>, "", ErrExit)
      /\ \A k \in 1..idx :
           /\ PgResultOf(k).err = ErrExit =>
                /\ PgResultOf(k).status = "fail"
                /\ CallsOf(checklist[k]) = << <<checklist[k], ERROR>> >>
                /\ Len(Block(report, k)) = 2
                /\ Block(report, k)[1] = HdrA(ERROR, "Skill Failed", checklist[k])
                /\ report_status = ERROR
           /\ PgResultOf(k).notes = RunnerNote =>
                /\ PgResultOf(k).status = "success" /\ PgResultOf(k).data = <<>>
                /\ CallsOf(checklist[k]) = <<>>
                /\ ~(pc = "crashed" /\ idx = k)
                /\ Rank(report_status) = WorstOfOthers(k)

C29_Witness ==
    /\ agent = "postgres" /\ pc = "done" /\ idx = 2
    /\ PgResultOf(1).notes = RunnerNote
    /\ PgResultOf(2).err = ErrExit
    /\ calls = << <<checklist[2], ERROR>> >>
    /\ report_status = ERROR

Separators(lines) == Len(SelectSeq(lines, LAMBDA l : l = Separator))
\* whether the rule of the last check of the checklist appends any line
LastBlockNonEmpty ==
    analyze_and_report(<<>>, PgResultOf(Len(checklist))).report # <<>>

\* C30: run_checks appends one separator after the block of each check and
\* no rule emits a separator line, so while the checks run the report holds
\* as many separators as checks have completed and ends with one; the
\* report written by generate_report does not end with a separator, holds
\* at most len(checklist) - 1 separators, and holds exactly that many when
\* the block of the last check is not empty.
C30_SeparatorProtocol ==
    agent = "postgres" =>
      /\ pc \in {"checks", "generate_report"} =>
           /\ Separators(report) = idx
           /\ idx > 0 => report[Len(report)] = Separator
      /\ pc = "crashed" => Separators(report) = idx - 1
      /\ report_file.written =>
           /\ report_file.lines = <<>>
                \/ report_file.lines[Len(report_file.lines)] # Separator
           /\ Separators(report_file.lines) <= Len(checklist) - 1
           /\ LastBlockNonEmpty =>
                Separators(report_file.lines) = Len(checklist) - 1

C30_Witness ==
    /\ agent = "postgres" /\ pc = "done" /\ Len(checklist) = 2
    /\ ~LastBlockNonEmpty
    /\ report_file.lines # <<>>
    /\ Separators(report_file.lines) = 0

====
